---- MODULE Spec2Model ----
(***************************************************************************)
(* ACCIO-RECIPE: the route handlers of the recipe / cooking-journal        *)
(* backend, as state machines over the database tables they read and       *)
(* write, the requests in flight and the last response sent.               *)
(***************************************************************************)
EXTENDS Integers, Sequences, FiniteSets, TLC

\* ------------------------------------------------------------------ bounds
MaxUsers == 2
MaxItems == 1
MaxLogs == 1
MaxRecipes == 1
MaxInflight == 2

\* ------------------------------------------------------- strings and parseInt
Digits == <<"0", "1", "2", "3", "4", "5", "6", "7", "8", "9">>

DigitValues ==
  [c \in {"0", "1", "2", "3", "4", "5", "6", "7", "8", "9"} |->
     (CHOOSE i \in 1..10 : Digits[i] = c) - 1]

IsDigit(c) == c \in DOMAIN DigitValues

DigitVal(c) == DigitValues[c]

IsSpace(c) == c = " "

RECURSIVE SkipSpaces(_)
SkipSpaces(s) ==
  IF s # <<>> /\ IsSpace(Head(s)) THEN SkipSpaces(Tail(s)) ELSE s

RECURSIVE DigitsVal(_, _)
DigitsVal(s, acc) ==
  IF s # <<>> /\ IsDigit(Head(s))
  THEN DigitsVal(Tail(s), acc * 10 + DigitVal(Head(s)))
  ELSE acc

NaN == [nan |-> TRUE, v |-> 0]

Num(n) == [nan |-> FALSE, v |-> n]

\* parseInt(s, 10): leading blanks skipped, an optional sign, then the longest
\* prefix of digits; NaN when there is no digit.
ParseInt(s) ==
  LET t == SkipSpaces(s)
      neg == t # <<>> /\ Head(t) = "-"
      u == IF t # <<>> /\ Head(t) \in {"-", "+"} THEN Tail(t) ELSE t
  IN IF u = <<>> \/ ~IsDigit(Head(u))
     THEN NaN
     ELSE Num((IF neg THEN -1 ELSE 1) * DigitsVal(u, 0))

\* Number.prototype.toString() of a non-negative integer.
RECURSIVE IntToStr(_)
IntToStr(n) ==
  IF n < 10 THEN <<Digits[n + 1]>>
  ELSE IntToStr(n \div 10) \o <<Digits[(n % 10) + 1]>>

\* isNaN(x) || x <= 0, the path-parameter check of the record-scoped handlers.
BadIdParam(x) == x.nan \/ x.v <= 0

\* ------------------------------------------------------------------- time
\* An instant is a whole number of hours since an epoch, in UTC; a calendar day
\* is a whole number of days since the epoch.
HOURS_PER_DAY == 24

EXPIRY_WINDOW_DAYS == 7

\* The time zone of the server process: its offset from UTC in hours before and
\* after one instant at which the clocks are changed.
UTC == [before |-> 0, switch |-> 0, after |-> 0]

KST == [before |-> 9, switch |-> 0, after |-> 9]

\* Clocks are set back one hour at 06:00 UTC of day 2 (02:00 local becomes 01:00).
EST5EDT == [before |-> -4, switch |-> 2 * HOURS_PER_DAY + 6, after |-> -5]

Zones == {UTC, KST, EST5EDT}

\* new Date() at the time of a request.
Clock == {d * HOURS_PER_DAY + h : d \in 1..3, h \in {1, 12, 23}}

\* The one request time of the specifications that do not look at dates.
Midday == HOURS_PER_DAY + 12

Offset(zone, t) == IF t < zone.switch THEN zone.before ELSE zone.after

\* getFullYear(), getMonth(), getDate(): the local calendar day of an instant.
LocalDay(zone, t) == (t + Offset(zone, t)) \div HOURS_PER_DAY

\* new Date(year, month, date): the instant of local midnight of a calendar day.
MidnightOf(zone, day) ==
  IF day * HOURS_PER_DAY - zone.before < zone.switch
  THEN day * HOURS_PER_DAY - zone.before
  ELSE day * HOURS_PER_DAY - zone.after

\* date.setHours(0, 0, 0, 0)
SetHoursZero(zone, t) == MidnightOf(zone, LocalDay(zone, t))

\* date.setDate(date.getDate() + n) of a local midnight
AddDays(zone, t, n) == MidnightOf(zone, LocalDay(zone, t) + n)

\* The calendar of the model: every month has MonthDays days.
MonthDays == 2

\* new Date(year, month, 1) and new Date(year, month - 1, 1)
MonthStart(zone, t) ==
  MidnightOf(zone, (LocalDay(zone, t) \div MonthDays) * MonthDays)

PrevMonthStart(zone, t) ==
  MidnightOf(zone, (LocalDay(zone, t) \div MonthDays - 1) * MonthDays)

\* Math.round(n / d) for d > 0: the nearest integer, a half goes up.
MathFloor(n, d) == n \div d

MathRound(n, d) == (2 * n + d) \div (2 * d)

\* new Date("YYYY-MM-DD"): midnight UTC of the day
ParseDate(day) == day * HOURS_PER_DAY

\* date.toISOString().split('T')[0]
IsoDate(t) == t \div HOURS_PER_DAY

\* Math.ceil(n / d) for d > 0
Ceil(n, d) == -((-n) \div d)

\* A nullable date column and a nullable number of a response.
NoDate == [null |-> TRUE, t |-> 0]

DateAt(t) == [null |-> FALSE, t |-> t]

Null == [null |-> TRUE, v |-> 0]

Number(v) == [null |-> FALSE, v |-> v]

\* An optional text field of a request body (a sequence of characters), an
\* optional status, and a nullable text column.
NoText == [given |-> FALSE, v |-> <<>>]

TextOf(v) == [given |-> TRUE, v |-> v]

NoStatus == [given |-> FALSE, v |-> ""]

Status(v) == [given |-> TRUE, v |-> v]

NullText == [null |-> TRUE, v |-> <<>>]

SomeText(v) == [null |-> FALSE, v |-> v]

\* expiry_date of a request body: absent, no YYYY-MM-DD string, or a day.
NoExpiry == [kind |-> "absent", day |-> 0]

BadExpiry == [kind |-> "invalid", day |-> 0]

ExpiryOn(day) == [kind |-> "date", day |-> day]

\* ------------------------------------------------------------------ state
VARIABLES
  users,              \* users rows: user_id -> [social_provider, social_id,
                      \*   terms_agreements, terms_agreed_at (TRUE: a date is stored)]
  nextUserId,         \* users.user_id auto-increment
  user_settings,      \* user_settings rows: user_id -> [alert_timer]
  fridge_items,       \* fridge_items rows: item_id -> [user_id, master_id, custom_name,
                      \*   quantity, unit, expiry_date]
  nextItemId,
  cooking_logs,       \* cooking_logs rows: log_id -> [user_id, recipe_id, status,
                      \*   lesson_note, companion, cooked_at]
  nextLogId,
  recipes,            \* recipes rows: recipe_id -> [user_id, title, servings]
  nextRecipeId,
  recipe_ingredients, \* recipe_ingredients rows: [recipe_id, ri_id, name, amount]
  recipe_steps,       \* recipe_steps rows: [recipe_id, step_id, step_order, instruction]
  pending,            \* requests between their lookup and their update/delete
  last                \* the last response sent

db == <<users, nextUserId, user_settings, fridge_items, nextItemId, cooking_logs,
        nextLogId, recipes, nextRecipeId, recipe_ingredients, recipe_steps>>

vars == <<users, nextUserId, user_settings, fridge_items, nextItemId, cooking_logs,
          nextLogId, recipes, nextRecipeId, recipe_ingredients, recipe_steps,
          pending, last>>

\* --------------------------------------------------------------- sessions
\* What getServerSession resolves to: null, a session without user, a session
\* whose user has no id, or the session of a signed-in user (id is the decimal
\* string the signIn callback wrote, kept by the jwt and session callbacks).
SessNull == [kind |-> "null", id |-> <<>>]

SessNoUser == [kind |-> "nouser", id |-> <<>>]

SessNoId == [kind |-> "noid", id |-> <<>>]

SessionOf(u) == [kind |-> "user", id |-> IntToStr(u)]

\* JWT sessions outlive the users row: every id ever issued may still arrive.
Sessions == {SessNull, SessNoUser, SessNoId} \cup {SessionOf(u) : u \in 1..nextUserId}

\* A guard that only looks for the session object.
NoSessionInNullOnly(s) == s.kind = "null"

\* !session || !session.user || !('id' in session.user)
NoSessionIn(s) == s.kind = "null" \/ s.kind = "nouser" \/ s.kind = "noid"

\* !session || !session.user || !session.user.id
NoSessionId(s) == s.kind = "null" \/ s.kind = "nouser" \/ s.id = <<>>

\* The request came with the session of a signed-in user.
Authed(x) == x.kind = "user"

\* A response: the handler, whether the request came with a signed-in user's
\* session, the status, the number of database calls the request issued, the
\* recipes whose rows the body carries and, for the recipe detail, the computed
\* body. x is the request's session, or the request in flight.
NoBody == [none |-> TRUE]

Reply(x, op, status, calls, discloses, body) ==
  [op |-> op, authed |-> Authed(x), status |-> status, calls |-> calls,
   discloses |-> discloses, body |-> body]

Response(x, op, status, calls) == Reply(x, op, status, calls, {}, NoBody)

\* No response is waiting to be read.
NoResponse ==
  [op |-> "none", authed |-> TRUE, status |-> 0, calls |-> 0, discloses |-> {},
   body |-> NoBody]

Init ==
  /\ users = <<>>
  /\ nextUserId = 0
  /\ user_settings = <<>>
  /\ fridge_items = <<>>
  /\ nextItemId = 0
  /\ cooking_logs = <<>>
  /\ nextLogId = 0
  /\ recipes = <<>>
  /\ nextRecipeId = 0
  /\ recipe_ingredients = {}
  /\ recipe_steps = {}
  /\ pending = {}
  /\ last = NoResponse


\* ------------------------------------------------------------ table helpers
Remove(f, k) == [x \in DOMAIN f \ {k} |-> f[x]]

Put(f, k, v) == [x \in DOMAIN f \cup {k} |-> IF x = k THEN v ELSE f[x]]

\* String.prototype.trim()
RECURSIVE DropTrailingSpaces(_)
DropTrailingSpaces(s) ==
  IF s # <<>> /\ IsSpace(s[Len(s)]) THEN DropTrailingSpaces(SubSeq(s, 1, Len(s) - 1)) ELSE s

Trim(s) == DropTrailingSpaces(SkipSpaces(s))

\* s.trim() === ''
IsBlank(s) == Trim(s) = <<>>

\* cooking_logs_status
VALID_STATUS_VALUES == {"SUCCESS", "REGRET", "FAIL"}

\* Path parameters a client may send: a non-number, zero, and the ids 1..n.
IdParams(n) == {<<"x">>, <<"0">>} \cup {IntToStr(i) : i \in 1..n}

\* ------------------------------------------------------------------ sign-in
\* The row prisma.users.create is given by callbacks.signIn.
NewUser(provider, socialId) ==
  [social_provider |-> provider, social_id |-> socialId, terms_agreements |-> FALSE,
   terms_agreed_at |-> FALSE]

\* The users row of a member who went through the signup page.
Member(u) ==
  [social_provider |-> "google", social_id |-> IntToStr(u), terms_agreements |-> TRUE,
   terms_agreed_at |-> TRUE]

\* callbacks.signIn for a social id that has no users row: the user is created
\* with the default settings row, and the session carries the new user_id. (A
\* sign-in with a known social id changes nothing.)
SignInNew ==
  /\ nextUserId < MaxUsers
  /\ nextUserId' = nextUserId + 1
  /\ users' = Put(users, nextUserId + 1, NewUser("google", IntToStr(nextUserId + 1)))
  /\ user_settings' = Put(user_settings, nextUserId + 1, [alert_timer |-> TRUE])
  /\ UNCHANGED <<fridge_items, nextItemId, cooking_logs, nextLogId, recipes,
                 nextRecipeId, recipe_ingredients, recipe_steps, pending, last>>

\* ------------------------------------------------------- database behaviour
\* prisma.users.delete with the schema's referential actions: the user's settings,
\* fridge items, cooking logs and recipes (with their ingredients and steps) go
\* with the user; another user's log of a removed recipe loses its recipe_id.
CascadeUsersDelete(u) ==
  LET gone == {r \in DOMAIN recipes : recipes[r].user_id = u} IN
  /\ users' = Remove(users, u)
  /\ user_settings' = Remove(user_settings, u)
  /\ fridge_items' = [i \in {j \in DOMAIN fridge_items : fridge_items[j].user_id # u}
                        |-> fridge_items[i]]
  /\ recipes' = [r \in DOMAIN recipes \ gone |-> recipes[r]]
  /\ recipe_ingredients' = {x \in recipe_ingredients : x.recipe_id \notin gone}
  /\ recipe_steps' = {x \in recipe_steps : x.recipe_id \notin gone}
  /\ cooking_logs' = [l \in {j \in DOMAIN cooking_logs : cooking_logs[j].user_id # u}
                        |-> IF cooking_logs[l].recipe_id \in gone
                            THEN [cooking_logs[l] EXCEPT !.recipe_id = 0]
                            ELSE cooking_logs[l]]

NoData == [none |-> TRUE]

\* A row's user_id must name a users row, or the insert is rejected.
UserFkHolds(u) == u \in DOMAIN users

\* ------------------------------------------------------------------- fridge
OpFridgeGet == "GET /api/fridge"
OpFridgePost == "POST /api/fridge"
OpFridgePut == "PUT /api/fridge/{item_id}"
OpFridgeDelete == "DELETE /api/fridge/{item_id}"

\* expiry.setHours(0, 0, 0, 0);
\* Math.ceil((expiry.getTime() - today.getTime()) / (1000 * 60 * 60 * 24))
DDay(zone, today, expiry_date) ==
  IF expiry_date.null THEN Null
  ELSE Number(Ceil(SetHoursZero(zone, expiry_date.t) - today, HOURS_PER_DAY))

\* One element of the data of GET /api/fridge.
FridgeItemView(zone, today, i) ==
  [item_id |-> i,
   expiry_date |-> IF fridge_items[i].expiry_date.null THEN Null
                   ELSE Number(IsoDate(fridge_items[i].expiry_date.t)),
   d_day |-> DDay(zone, today, fridge_items[i].expiry_date)]

\* GET /api/fridge at the instant now on a server in the time zone zone.
FridgeGet(s, now, zone) ==
  /\ last' =
       IF NoSessionIn(s) THEN Response(s, OpFridgeGet, 401, 0)
       ELSE LET userId == ParseInt(s.id)
                today == SetHoursZero(zone, now)
            IN Reply(s, OpFridgeGet, 200, 1, {},
                     {FridgeItemView(zone, today, i) :
                        i \in {j \in DOMAIN fridge_items :
                                 ~userId.nan /\ fridge_items[j].user_id = userId.v}})
  /\ UNCHANGED <<db, pending>>

\* The rows of ingredients_master, which no handler writes: one with a default
\* unit and a shelf life of one day, one with neither.
ingredients_master ==
  {[master_id |-> 1, name |-> <<"e", "g", "g">>, default_unit |-> SomeText(<<"e", "a">>),
    base_shelf_life |-> Number(1)],
   [master_id |-> 2, name |-> <<"o", "i", "l">>, default_unit |-> NullText,
    base_shelf_life |-> Null]}

\* prisma.ingredients_master.findFirst({ where: { name: { equals: name } } })
MasterFound(name) == \E m \in ingredients_master : m.name = name

MasterOf(name) == CHOOSE m \in ingredients_master : m.name = name

FridgePostBodies ==
  [name : {<<" ">>, <<"e">>}, has_quantity : BOOLEAN, quantity : {0}, unit : {NoText},
   expiry_date : {NoExpiry}]

FridgePostErrors(b, now, zone) ==
  \/ IsBlank(b.name)
  \/ b.has_quantity /\ b.quantity <= 0
  \/ b.expiry_date.kind = "invalid"
  \/ b.expiry_date.kind = "date" /\ ParseDate(b.expiry_date.day) < SetHoursZero(zone, now)

\* The expiry date of a new item: the one given, else today plus the shelf life
\* of the master ingredient of that name, else none.
ResolvedExpiryDate(b, now, zone) ==
  IF b.expiry_date.kind = "date" THEN DateAt(ParseDate(b.expiry_date.day))
  ELSE IF MasterFound(Trim(b.name)) /\ ~MasterOf(Trim(b.name)).base_shelf_life.null
    THEN DateAt(AddDays(zone, SetHoursZero(zone, now), MasterOf(Trim(b.name)).base_shelf_life.v))
    ELSE NoDate

\* A unit that prefers the master ingredient's default to the one supplied.
ResolvedUnitMasterFirst(b) ==
  IF MasterFound(Trim(b.name)) /\ ~MasterOf(Trim(b.name)).default_unit.null
  THEN MasterOf(Trim(b.name)).default_unit
  ELSE IF b.unit.given THEN SomeText(Trim(b.unit.v))
  ELSE NullText

\* body.unit?.trim() ?? master?.default_unit ?? null
ResolvedUnit(b) ==
  IF b.unit.given THEN SomeText(Trim(b.unit.v))
  ELSE IF MasterFound(Trim(b.name)) THEN MasterOf(Trim(b.name)).default_unit
  ELSE NullText

\* A create that stores the name next to the link to the master ingredient.
NewFridgeItemNamed(userId, b, now, zone) ==
  [user_id |-> userId,
   master_id |-> IF MasterFound(Trim(b.name)) THEN Number(MasterOf(Trim(b.name)).master_id)
                 ELSE Null,
   custom_name |-> SomeText(Trim(b.name)),
   quantity |-> IF b.has_quantity THEN b.quantity ELSE 1,
   unit |-> ResolvedUnit(b),
   expiry_date |-> ResolvedExpiryDate(b, now, zone)]

\* The data of prisma.fridge_items.create.
NewFridgeItem(userId, b, now, zone) ==
  [user_id |-> userId,
   master_id |-> IF MasterFound(Trim(b.name)) THEN Number(MasterOf(Trim(b.name)).master_id)
                 ELSE Null,
   custom_name |-> IF MasterFound(Trim(b.name)) THEN NullText ELSE SomeText(Trim(b.name)),
   quantity |-> IF b.has_quantity THEN b.quantity ELSE 1,
   unit |-> ResolvedUnit(b),
   expiry_date |-> ResolvedExpiryDate(b, now, zone)]

FridgePost(s, b, now, zone) ==
  IF NoSessionIn(s) THEN
    /\ last' = Response(s, OpFridgePost, 401, 0)
    /\ UNCHANGED <<db, pending>>
  ELSE IF FridgePostErrors(b, now, zone) THEN
    /\ last' = Response(s, OpFridgePost, 400, 0)
    /\ UNCHANGED <<db, pending>>
  ELSE LET userId == ParseInt(s.id).v IN
    IF UserFkHolds(userId) THEN
      /\ nextItemId < MaxItems
      /\ nextItemId' = nextItemId + 1
      /\ fridge_items' = Put(fridge_items, nextItemId + 1,
                             NewFridgeItem(userId, b, now, zone))
      /\ last' = Response(s, OpFridgePost, 201, 2)
      /\ UNCHANGED <<users, nextUserId, user_settings, cooking_logs, nextLogId, recipes,
                     nextRecipeId, recipe_ingredients, recipe_steps, pending>>
    ELSE
      /\ last' = Response(s, OpFridgePost, 500, 2)
      /\ UNCHANGED <<db, pending>>

FridgePutBodies ==
  [has_quantity : {TRUE}, quantity : {0, 2}, unit : {NoText}, expiry_date : {NoExpiry}]

FridgePutErrors(b) ==
  \/ b.has_quantity /\ b.quantity <= 0
  \/ b.expiry_date.kind = "invalid"

\* An ownership check that lets every session through.
NotOwnerNever(row, userId) == FALSE

\* existing.user_id !== userId
NotOwner(row, userId) == userId.nan \/ row.user_id # userId.v

\* Authentication, the path parameter, the lookup, the ownership check and the
\* validation of PUT /api/fridge/{item_id}: the response, or "go on" (status 0).
\* A handler that validates the body before it looks the item up.
FridgePutCheckValidateFirst(s, p, b) ==
  LET itemId == ParseInt(p) IN
  IF NoSessionIn(s) THEN Response(s, OpFridgePut, 401, 0)
  ELSE IF BadIdParam(itemId) THEN Response(s, OpFridgePut, 400, 0)
  ELSE IF FridgePutErrors(b) THEN Response(s, OpFridgePut, 400, 0)
  ELSE IF itemId.v \notin DOMAIN fridge_items THEN Response(s, OpFridgePut, 404, 1)
  ELSE IF NotOwner(fridge_items[itemId.v], ParseInt(s.id)) THEN Response(s, OpFridgePut, 403, 1)
  ELSE Response(s, OpFridgePut, 0, 1)

FridgePutCheck(s, p, b) ==
  LET itemId == ParseInt(p) IN
  IF NoSessionIn(s) THEN Response(s, OpFridgePut, 401, 0)
  ELSE IF BadIdParam(itemId) THEN Response(s, OpFridgePut, 400, 0)
  ELSE IF itemId.v \notin DOMAIN fridge_items THEN Response(s, OpFridgePut, 404, 1)
  ELSE IF NotOwner(fridge_items[itemId.v], ParseInt(s.id)) THEN Response(s, OpFridgePut, 403, 1)
  ELSE IF FridgePutErrors(b) THEN Response(s, OpFridgePut, 400, 1)
  ELSE Response(s, OpFridgePut, 0, 1)

FridgePutStart(s, p, b) ==
  LET r == FridgePutCheck(s, p, b) IN
  /\ IF r.status # 0
     THEN last' = r /\ UNCHANGED pending
     ELSE /\ Cardinality(pending) < MaxInflight
          /\ pending' = pending \cup {[kind |-> s.kind, op |-> OpFridgePut, user |-> ParseInt(s.id).v,
                                       id |-> ParseInt(p).v, data |-> b]}
          /\ UNCHANGED last
  /\ UNCHANGED db

\* An update that writes the default quantity when the body has none.
UpdatedItemReplace(row, b) ==
  [row EXCEPT !.quantity = IF b.has_quantity THEN b.quantity ELSE 1,
              !.unit = IF ~b.unit.given THEN @
                       ELSE IF Trim(b.unit.v) = <<>> THEN NullText
                       ELSE SomeText(Trim(b.unit.v)),
              !.expiry_date = IF b.expiry_date.kind = "date"
                              THEN DateAt(ParseDate(b.expiry_date.day))
                              ELSE @]

\* updateData applied to the row: only the fields the body has.
UpdatedItem(row, b) ==
  [row EXCEPT !.quantity = IF b.has_quantity THEN b.quantity ELSE @,
              !.unit = IF ~b.unit.given THEN @
                       ELSE IF Trim(b.unit.v) = <<>> THEN NullText
                       ELSE SomeText(Trim(b.unit.v)),
              !.expiry_date = IF b.expiry_date.kind = "date"
                              THEN DateAt(ParseDate(b.expiry_date.day))
                              ELSE @]

\* prisma.fridge_items.update: throws when the row is gone.
FridgePutCommit(q) ==
  /\ q \in pending
  /\ q.op = OpFridgePut
  /\ pending' = pending \ {q}
  /\ IF q.id \in DOMAIN fridge_items
     THEN /\ fridge_items' = [fridge_items EXCEPT ![q.id] = UpdatedItem(@, q.data)]
          /\ last' = Response(q, OpFridgePut, 200, 2)
     ELSE /\ UNCHANGED fridge_items
          /\ last' = Response(q, OpFridgePut, 500, 2)
  /\ UNCHANGED <<users, nextUserId, user_settings, nextItemId, cooking_logs, nextLogId,
                 recipes, nextRecipeId, recipe_ingredients, recipe_steps>>

FridgeDeleteCheck(s, p) ==
  LET itemId == ParseInt(p) IN
  IF NoSessionIn(s) THEN Response(s, OpFridgeDelete, 401, 0)
  ELSE IF BadIdParam(itemId) THEN Response(s, OpFridgeDelete, 400, 0)
  ELSE IF itemId.v \notin DOMAIN fridge_items THEN Response(s, OpFridgeDelete, 404, 1)
  ELSE IF NotOwner(fridge_items[itemId.v], ParseInt(s.id)) THEN Response(s, OpFridgeDelete, 403, 1)
  ELSE Response(s, OpFridgeDelete, 0, 1)

FridgeDeleteStart(s, p) ==
  LET r == FridgeDeleteCheck(s, p) IN
  /\ IF r.status # 0
     THEN last' = r /\ UNCHANGED pending
     ELSE /\ Cardinality(pending) < MaxInflight
          /\ pending' = pending \cup {[kind |-> s.kind, op |-> OpFridgeDelete, user |-> ParseInt(s.id).v,
                                       id |-> ParseInt(p).v, data |-> NoData]}
          /\ UNCHANGED last
  /\ UNCHANGED db

\* prisma.fridge_items.delete: throws when the row is gone.
FridgeDeleteCommit(q) ==
  /\ q \in pending
  /\ q.op = OpFridgeDelete
  /\ pending' = pending \ {q}
  /\ IF q.id \in DOMAIN fridge_items
     THEN /\ fridge_items' = Remove(fridge_items, q.id)
          /\ last' = Response(q, OpFridgeDelete, 200, 2)
     ELSE /\ UNCHANGED fridge_items
          /\ last' = Response(q, OpFridgeDelete, 500, 2)
  /\ UNCHANGED <<users, nextUserId, user_settings, nextItemId, cooking_logs, nextLogId,
                 recipes, nextRecipeId, recipe_ingredients, recipe_steps>>


\* ------------------------------------------------------------- cooking logs
OpLogsGet == "GET /api/cooking-logs"
OpLogsPost == "POST /api/cooking-logs"
OpLogsPut == "PUT /api/cooking-logs/{log_id}"
OpLogsDelete == "DELETE /api/cooking-logs/{log_id}"

LogsGet(s) ==
  /\ last' = IF NoSessionIn(s) THEN Response(s, OpLogsGet, 401, 0)
             ELSE Response(s, OpLogsGet, 200, 1)
  /\ UNCHANGED <<db, pending>>

COMPANION_MAX == 50

\* recipe_id -1 stands for a body without recipe_id.
LogsPostBodies ==
  [status : {Status("SUCCESS"), Status("DONE")}, recipe_id : -1..MaxRecipes,
   lesson_note : {TextOf(<<"n">>)}, companion : {NoText}]

\* The four checks of POST /api/cooking-logs, each with its message.
LogsPostErrorList(b) ==
  (IF ~b.status.given \/ b.status.v = "" \/ b.status.v \notin VALID_STATUS_VALUES
     THEN <<"status">> ELSE <<>>)
  \o (IF b.recipe_id = -1 THEN <<"recipe_id required">>
      ELSE IF b.recipe_id <= 0 THEN <<"recipe_id positive">> ELSE <<>>)
  \o (IF ~b.lesson_note.given \/ b.lesson_note.v = <<>> \/ Trim(b.lesson_note.v) = <<>>
      THEN <<"lesson_note">> ELSE <<>>)
  \o (IF b.companion.given /\ Len(Trim(b.companion.v)) > COMPANION_MAX
      THEN <<"companion">> ELSE <<>>)

LogsPostErrors(b) == Len(LogsPostErrorList(b)) > 0

\* POST /api/cooking-logs; cooked_at is the database's now().
LogsPost(s, b, now) ==
  IF NoSessionIn(s) THEN
    /\ last' = Response(s, OpLogsPost, 401, 0)
    /\ UNCHANGED <<db, pending>>
  ELSE IF LogsPostErrors(b) THEN
    /\ last' = Response(s, OpLogsPost, 400, 0)
    /\ UNCHANGED <<db, pending>>
  ELSE IF b.recipe_id \notin DOMAIN recipes THEN
    /\ last' = Response(s, OpLogsPost, 404, 1)
    /\ UNCHANGED <<db, pending>>
  ELSE LET userId == ParseInt(s.id).v IN
    IF UserFkHolds(userId) THEN
      /\ nextLogId < MaxLogs
      /\ nextLogId' = nextLogId + 1
      /\ cooking_logs' = Put(cooking_logs, nextLogId + 1,
                             [user_id |-> userId, recipe_id |-> b.recipe_id,
                              status |-> b.status.v,
                              lesson_note |-> Trim(b.lesson_note.v),
                              companion |-> IF b.companion.given
                                            THEN SomeText(Trim(b.companion.v))
                                            ELSE NullText,
                              cooked_at |-> now])
      /\ last' = Response(s, OpLogsPost, 201, 2)
      /\ UNCHANGED <<users, nextUserId, user_settings, fridge_items, nextItemId, recipes,
                     nextRecipeId, recipe_ingredients, recipe_steps, pending>>
    ELSE
      /\ last' = Response(s, OpLogsPost, 500, 2)
      /\ UNCHANGED <<db, pending>>

LogsPutBodies ==
  [status : {Status("FAIL"), Status("DONE")}, lesson_note : {NoText}, companion : {NoText}]

\* The checks of PUT with lesson_note compared to '' without trim().
LogsPutErrorListEmptyOnly(b) ==
  (IF b.status.given /\ b.status.v \notin VALID_STATUS_VALUES THEN <<"status">> ELSE <<>>)
  \o (IF b.lesson_note.given /\ b.lesson_note.v = <<>> THEN <<"lesson_note">> ELSE <<>>)
  \o (IF b.companion.given /\ Len(Trim(b.companion.v)) > COMPANION_MAX
      THEN <<"companion">> ELSE <<>>)

\* The three checks of PUT /api/cooking-logs/{log_id}, each with its message.
LogsPutErrorList(b) ==
  (IF b.status.given /\ b.status.v \notin VALID_STATUS_VALUES THEN <<"status">> ELSE <<>>)
  \o (IF b.lesson_note.given /\ Trim(b.lesson_note.v) = <<>> THEN <<"lesson_note">> ELSE <<>>)
  \o (IF b.companion.given /\ Len(Trim(b.companion.v)) > COMPANION_MAX
      THEN <<"companion">> ELSE <<>>)

LogsPutErrors(b) == Len(LogsPutErrorList(b)) > 0

LogsPutCheck(s, p, b) ==
  LET logId == ParseInt(p) IN
  IF NoSessionIn(s) THEN Response(s, OpLogsPut, 401, 0)
  ELSE IF BadIdParam(logId) THEN Response(s, OpLogsPut, 400, 0)
  ELSE IF logId.v \notin DOMAIN cooking_logs THEN Response(s, OpLogsPut, 404, 1)
  ELSE IF NotOwner(cooking_logs[logId.v], ParseInt(s.id)) THEN Response(s, OpLogsPut, 403, 1)
  ELSE IF LogsPutErrors(b) THEN Response(s, OpLogsPut, 400, 1)
  ELSE Response(s, OpLogsPut, 0, 1)

LogsPutStart(s, p, b) ==
  LET r == LogsPutCheck(s, p, b) IN
  /\ IF r.status # 0
     THEN last' = r /\ UNCHANGED pending
     ELSE /\ Cardinality(pending) < MaxInflight
          /\ pending' = pending \cup {[kind |-> s.kind, op |-> OpLogsPut, user |-> ParseInt(s.id).v,
                                       id |-> ParseInt(p).v, data |-> b]}
          /\ UNCHANGED last
  /\ UNCHANGED db

\* prisma.cooking_logs.update: throws when the row is gone.
LogsPutCommit(q) ==
  /\ q \in pending
  /\ q.op = OpLogsPut
  /\ pending' = pending \ {q}
  /\ IF q.id \in DOMAIN cooking_logs
     THEN /\ cooking_logs' =
               [cooking_logs EXCEPT ![q.id] =
                  [@ EXCEPT
                     !.status = IF q.data.status.given THEN q.data.status.v ELSE @,
                     !.lesson_note = IF q.data.lesson_note.given
                                     THEN Trim(q.data.lesson_note.v) ELSE @,
                     !.companion = IF ~q.data.companion.given THEN @
                                   ELSE IF Trim(q.data.companion.v) = <<>> THEN NullText
                                   ELSE SomeText(Trim(q.data.companion.v))]]
          /\ last' = Response(q, OpLogsPut, 200, 2)
     ELSE /\ UNCHANGED cooking_logs
          /\ last' = Response(q, OpLogsPut, 500, 2)
  /\ UNCHANGED <<users, nextUserId, user_settings, fridge_items, nextItemId, nextLogId,
                 recipes, nextRecipeId, recipe_ingredients, recipe_steps>>

LogsDeleteCheck(s, p) ==
  LET logId == ParseInt(p) IN
  IF NoSessionIn(s) THEN Response(s, OpLogsDelete, 401, 0)
  ELSE IF BadIdParam(logId) THEN Response(s, OpLogsDelete, 400, 0)
  ELSE IF logId.v \notin DOMAIN cooking_logs THEN Response(s, OpLogsDelete, 404, 1)
  ELSE IF NotOwner(cooking_logs[logId.v], ParseInt(s.id)) THEN Response(s, OpLogsDelete, 403, 1)
  ELSE Response(s, OpLogsDelete, 0, 1)

LogsDeleteStart(s, p) ==
  LET r == LogsDeleteCheck(s, p) IN
  /\ IF r.status # 0
     THEN last' = r /\ UNCHANGED pending
     ELSE /\ Cardinality(pending) < MaxInflight
          /\ pending' = pending \cup {[kind |-> s.kind, op |-> OpLogsDelete, user |-> ParseInt(s.id).v,
                                       id |-> ParseInt(p).v, data |-> NoData]}
          /\ UNCHANGED last
  /\ UNCHANGED db

\* prisma.cooking_logs.delete: throws when the row is gone.
LogsDeleteCommit(q) ==
  /\ q \in pending
  /\ q.op = OpLogsDelete
  /\ pending' = pending \ {q}
  /\ IF q.id \in DOMAIN cooking_logs
     THEN /\ cooking_logs' = Remove(cooking_logs, q.id)
          /\ last' = Response(q, OpLogsDelete, 200, 2)
     ELSE /\ UNCHANGED cooking_logs
          /\ last' = Response(q, OpLogsDelete, 500, 2)
  /\ UNCHANGED <<users, nextUserId, user_settings, fridge_items, nextItemId, nextLogId,
                 recipes, nextRecipeId, recipe_ingredients, recipe_steps>>


\* ------------------------------------------------------------------ recipes
OpRecipesGet == "GET /api/recipes"
OpRecipesPost == "POST /api/recipes"
OpRecipeGet == "GET /api/recipes/{recipe_id}"
OpRecipeStepsGet == "GET /api/recipes/{recipe_id}/steps"
OpRecipeLogsGet == "GET /api/recipes/{recipe_id}/logs"

\* totalCount > 0 ? Math.round((successCount / totalCount) * 100) : null
OverallSuccessRate(allLogs) ==
  LET totalCount == Cardinality(allLogs)
      successCount == Cardinality({l \in allLogs : cooking_logs[l].status = "SUCCESS"})
  IN IF totalCount > 0 THEN Number(MathRound(successCount * 100, totalCount)) ELSE Null

\* cooking_logs: { orderBy: { cooked_at: 'desc' }, take: 1 } of recipe r: the
\* logs of the recipe than which none is later, whoever wrote them; 0 stands
\* for a recipe without log (latest_log: null).
LatestLogs(r) ==
  LET logs == {l \in DOMAIN cooking_logs : cooking_logs[l].recipe_id = r} IN
  IF logs = {} THEN {0}
  ELSE {l \in logs : \A k \in logs : cooking_logs[k].cooked_at <= cooking_logs[l].cooked_at}

\* The user's recipes, each with its latest log (any one of the latest when
\* several were cooked at the same time), and the user's cumulative statistics.
RecipesGet(s) ==
  /\ IF NoSessionIn(s) THEN last' = Response(s, OpRecipesGet, 401, 0)
     ELSE LET userId == ParseInt(s.id)
              mine == {r \in DOMAIN recipes : ~userId.nan /\ recipes[r].user_id = userId.v}
              allLogs == {l \in DOMAIN cooking_logs :
                            ~userId.nan /\ cooking_logs[l].user_id = userId.v}
          IN \E latest \in [mine -> DOMAIN cooking_logs \cup {0}] :
               /\ \A r \in mine : latest[r] \in LatestLogs(r)
               /\ last' = Reply(s, OpRecipesGet, 200, 2, mine,
                                [stats |-> [total_cooking_count |-> Cardinality(allLogs),
                                            overall_success_rate |-> OverallSuccessRate(allLogs)],
                                 latest_log |-> latest])
  /\ UNCHANGED <<db, pending>>

\* Amounts are decimals with two places, held as hundredths.
Ingredient(amount_given, amount) ==
  [is_null |-> FALSE, name |-> <<"i">>, amount_given |-> amount_given, amount |-> amount]

Step1 == [is_null |-> FALSE, order_is_number |-> TRUE, step_order |-> 1, instruction |-> <<"s">>]

\* A null among the elements of ingredients or steps.
NullIngredient == [is_null |-> TRUE, name |-> <<>>, amount_given |-> FALSE, amount |-> 0]

NullStep == [is_null |-> TRUE, order_is_number |-> FALSE, step_order |-> 0, instruction |-> <<>>]

RecipePostBodies ==
  [title : {<<" ">>, <<"t">>}, servings_given : {FALSE}, servings : {0},
   ingredients : {<<Ingredient(TRUE, 100)>>}, steps : {<<Step1>>}]

\* An entry of errors: what is missing and, for an element, its index.
ErrorOf(what, index) == [what |-> what, index |-> index]

\* errors after the ingredients.forEach: one entry for each element without name.
RECURSIVE IngredientErrors(_, _)
IngredientErrors(ingredients, n) ==
  IF n = 0 THEN <<>>
  ELSE IngredientErrors(ingredients, n - 1)
       \o (IF ingredients[n].name = <<>> \/ IsBlank(ingredients[n].name)
           THEN <<ErrorOf("ingredient name", n - 1)>> ELSE <<>>)

\* errors after the steps.forEach: per element one entry for a step_order that
\* is not a number and one for a missing instruction.
RECURSIVE StepErrors(_, _)
StepErrors(steps, n) ==
  IF n = 0 THEN <<>>
  ELSE StepErrors(steps, n - 1)
       \o (IF ~steps[n].order_is_number THEN <<ErrorOf("step_order", n - 1)>> ELSE <<>>)
       \o (IF steps[n].instruction = <<>> \/ IsBlank(steps[n].instruction)
           THEN <<ErrorOf("step instruction", n - 1)>> ELSE <<>>)

\* The errors array of POST /api/recipes.
RecipePostErrorList(b) ==
  (IF b.title = <<>> \/ IsBlank(b.title) THEN <<ErrorOf("title", -1)>> ELSE <<>>)
  \o (IF Len(b.ingredients) = 0 THEN <<ErrorOf("ingredients", -1)>>
      ELSE IngredientErrors(b.ingredients, Len(b.ingredients)))
  \o (IF Len(b.steps) = 0 THEN <<ErrorOf("steps", -1)>>
      ELSE StepErrors(b.steps, Len(b.steps)))

RecipePostErrors(b) == Len(RecipePostErrorList(b)) > 0

\* ing.name and step.step_order on a null element throw a TypeError.
RecipePostThrows(b) ==
  \/ \E i \in 1..Len(b.ingredients) : b.ingredients[i].is_null
  \/ \E i \in 1..Len(b.steps) : b.steps[i].is_null

\* recipe_ingredients: { create: ingredients.map(...) }
CreateIngredients(rid, b) ==
  {[recipe_id |-> rid, ri_id |-> i, name |-> Trim(b.ingredients[i].name),
    amount_null |-> ~b.ingredients[i].amount_given,
    amount |-> IF b.ingredients[i].amount_given THEN b.ingredients[i].amount ELSE 0]
     : i \in 1..Len(b.ingredients)}

\* A create that keeps the first step only.
CreateStepsFirstOnly(rid, b) ==
  {[recipe_id |-> rid, step_id |-> i, step_order |-> b.steps[i].step_order,
    instruction |-> Trim(b.steps[i].instruction)] : i \in 1..1}

\* recipe_steps: { create: steps.map(...) }
CreateSteps(rid, b) ==
  {[recipe_id |-> rid, step_id |-> i, step_order |-> b.steps[i].step_order,
    instruction |-> Trim(b.steps[i].instruction)] : i \in 1..Len(b.steps)}

\* prisma.recipes.create with the nested creates: one statement, all rows or none.
RecipesPost(s, b) ==
  IF NoSessionIn(s) THEN
    /\ last' = Response(s, OpRecipesPost, 401, 0)
    /\ UNCHANGED <<db, pending>>
  ELSE IF RecipePostThrows(b) THEN
    /\ last' = Response(s, OpRecipesPost, 500, 0)
    /\ UNCHANGED <<db, pending>>
  ELSE IF RecipePostErrors(b) THEN
    /\ last' = Reply(s, OpRecipesPost, 400, 0, {}, [errors |-> RecipePostErrorList(b)])
    /\ UNCHANGED <<db, pending>>
  ELSE LET userId == ParseInt(s.id).v
           rid == nextRecipeId + 1 IN
    IF UserFkHolds(userId) THEN
      /\ nextRecipeId < MaxRecipes
      /\ nextRecipeId' = rid
      /\ recipes' = Put(recipes, rid,
                        [user_id |-> userId, title |-> Trim(b.title),
                         servings |-> IF b.servings_given THEN b.servings ELSE 1])
      /\ recipe_ingredients' = recipe_ingredients \cup CreateIngredients(rid, b)
      /\ recipe_steps' = recipe_steps \cup CreateSteps(rid, b)
      /\ last' = Response(s, OpRecipesPost, 201, 1)
      /\ UNCHANGED <<users, nextUserId, user_settings, fridge_items, nextItemId,
                     cooking_logs, nextLogId, pending>>
    ELSE
      /\ last' = Response(s, OpRecipesPost, 500, 1)
      /\ UNCHANGED <<db, pending>>

\* n / d rounded to the nearest integer (toFixed). An exact half is rounded away
\* from zero here; in the program it falls to the side of the binary fraction.
RoundDiv(n, d) ==
  LET an == IF n < 0 THEN -n ELSE n
      ad == IF d < 0 THEN -d ELSE d
      q == (2 * an + ad) \div (2 * ad)
  IN IF (n < 0) # (d < 0) THEN -q ELSE q

\* The servings parameter of the query string: absent, or its text.
NoServings == [given |-> FALSE, text |-> <<>>]

ServingsParam(text) == [given |-> TRUE, text |-> text]

\* searchParams.get('servings') ?? '0'
ServingsText(q) == IF q.given THEN q.text ELSE <<"0">>

\* requestedServings > 0 ? requestedServings : baseServings
TargetServings(requested, baseServings) ==
  IF ~requested.nan /\ requested.v > 0 THEN requested.v ELSE baseServings

\* parseFloat((Number(ing.amount) * ratio).toFixed(2)) with ratio = target / base,
\* in hundredths; a zero base makes the ratio Infinity or NaN.
ScaledAmount(row, target, baseServings) ==
  IF row.amount_null THEN [kind |-> "null", v |-> 0]
  ELSE IF baseServings = 0 THEN
    IF target = 0 \/ row.amount = 0 THEN [kind |-> "NaN", v |-> 0]
    ELSE [kind |-> "Infinity", v |-> 0]
  ELSE [kind |-> "number", v |-> RoundDiv(row.amount * target, baseServings)]

RecipeDetailBody(rid, q) ==
  LET baseServings == recipes[rid].servings
      target == TargetServings(ParseInt(ServingsText(q)), baseServings)
  IN [base_servings |-> baseServings,
      requested_servings |-> target,
      ingredients |-> {[ri_id |-> x.ri_id, amount |-> ScaledAmount(x, target, baseServings)]
                         : x \in {y \in recipe_ingredients : y.recipe_id = rid}}]

RecipeGet(s, p, q) ==
  /\ last' =
       IF NoSessionIn(s) THEN Response(s, OpRecipeGet, 401, 0)
       ELSE IF BadIdParam(ParseInt(p)) THEN Response(s, OpRecipeGet, 400, 0)
       ELSE IF ParseInt(p).v \notin DOMAIN recipes THEN Response(s, OpRecipeGet, 404, 1)
       ELSE Reply(s, OpRecipeGet, 200, 1, {ParseInt(p).v}, RecipeDetailBody(ParseInt(p).v, q))
  /\ UNCHANGED <<db, pending>>

RecipeStepsGet(s, p) ==
  /\ last' =
       IF NoSessionIn(s) THEN Response(s, OpRecipeStepsGet, 401, 0)
       ELSE IF BadIdParam(ParseInt(p)) THEN Response(s, OpRecipeStepsGet, 400, 0)
       ELSE IF ParseInt(p).v \notin DOMAIN recipes THEN Response(s, OpRecipeStepsGet, 404, 1)
       ELSE Reply(s, OpRecipeStepsGet, 200, 2, {ParseInt(p).v}, NoBody)
  /\ UNCHANGED <<db, pending>>

\* The body lists the requester's own logs of the recipe, none of its rows.
RecipeLogsGet(s, p) ==
  /\ last' =
       IF NoSessionIn(s) THEN Response(s, OpRecipeLogsGet, 401, 0)
       ELSE IF BadIdParam(ParseInt(p)) THEN Response(s, OpRecipeLogsGet, 400, 0)
       ELSE IF ParseInt(p).v \notin DOMAIN recipes THEN Response(s, OpRecipeLogsGet, 404, 1)
       ELSE Response(s, OpRecipeLogsGet, 200, 2)
  /\ UNCHANGED <<db, pending>>


\* ---------------------------------------------------- dashboard and catalog
OpDashboardGet == "GET /api/dashboard"
OpMasterGet == "GET /api/ingredients/master"

\* totalCount > 0 ? Math.round((successCount / totalCount) * 100) : null
MonthlySuccessRate(thisMonthLogs) ==
  LET totalCount == Cardinality(thisMonthLogs)
      successCount == Cardinality({l \in thisMonthLogs : cooking_logs[l].status = "SUCCESS"})
  IN IF totalCount > 0 THEN Number(MathRound(successCount * 100, totalCount)) ELSE Null

\* The four reads of Promise.all are issued together once the session is known.
\* The logs of this month are those from the first of the month to the end of
\* today, those of the previous month the ones of the month before.
\* expiring_items: the user's items whose expiry date is not after today plus
\* seven days, each with its d_day; rank is the number of listed items before
\* it in the list, which orderBy sorts by expiry_date.
DashboardReply(s, now, zone) ==
  IF NoSessionIn(s) THEN Response(s, OpDashboardGet, 401, 0)
  ELSE LET userId == ParseInt(s.id)
           today == MidnightOf(zone, LocalDay(zone, now))
           expiryThreshold == AddDays(zone, today, EXPIRY_WINDOW_DAYS)
           expiringRaw ==
             {j \in DOMAIN fridge_items :
                /\ ~userId.nan
                /\ fridge_items[j].user_id = userId.v
                /\ ~fridge_items[j].expiry_date.null
                /\ fridge_items[j].expiry_date.t <= expiryThreshold}
           myLogs == {l \in DOMAIN cooking_logs :
                        ~userId.nan /\ cooking_logs[l].user_id = userId.v}
           thisMonthLogs ==
             {l \in myLogs : /\ cooking_logs[l].cooked_at >= MonthStart(zone, now)
                             /\ cooking_logs[l].cooked_at < AddDays(zone, today, 1)}
           prevMonthLogs ==
             {l \in myLogs : /\ cooking_logs[l].cooked_at >= PrevMonthStart(zone, now)
                             /\ cooking_logs[l].cooked_at < MonthStart(zone, now)}
       IN Reply(s, OpDashboardGet, 200, 4, {},
            [monthly_cooking_count |-> Cardinality(thisMonthLogs),
             prev_month_cooking_count |-> Cardinality(prevMonthLogs),
             monthly_success_rate |-> MonthlySuccessRate(thisMonthLogs),
             expiring_items |->
                {[item_id |-> i,
                  expiry_date |-> Number(IsoDate(fridge_items[i].expiry_date.t)),
                  rank |-> Cardinality({k \in expiringRaw :
                                          fridge_items[k].expiry_date.t
                                            < fridge_items[i].expiry_date.t}),
                  d_day |-> IF fridge_items[i].expiry_date.null THEN Null
                            ELSE Number(Ceil(SetHoursZero(zone, fridge_items[i].expiry_date.t)
                                               - today, HOURS_PER_DAY))]
                   : i \in expiringRaw}])

DashboardGet(s, now, zone) ==
  /\ last' = DashboardReply(s, now, zone)
  /\ UNCHANGED <<db, pending>>

MasterGet(s) ==
  /\ last' = IF NoSessionIn(s) THEN Response(s, OpMasterGet, 401, 0)
             ELSE Response(s, OpMasterGet, 200, 1)
  /\ UNCHANGED <<db, pending>>

\* ------------------------------------------------------------ user and auth
OpProfileGet == "GET /api/user/profile"
OpSettingsPut == "PUT /api/user/settings"
OpUserDelete == "DELETE /api/user"
OpSignupPost == "POST /api/auth/signup"

ProfileGet(s) ==
  /\ last' = IF NoSessionId(s) THEN Response(s, OpProfileGet, 401, 0)
             ELSE IF ParseInt(s.id).v \notin DOMAIN users THEN Response(s, OpProfileGet, 404, 1)
             ELSE Response(s, OpProfileGet, 200, 1)
  /\ UNCHANGED <<db, pending>>

SettingsPutBodies == [alert_timer : {"absent", "true"}]

\* prisma.users.update with the nested user_settings upsert: throws when the
\* users row is gone.
SettingsPut(s, b) ==
  IF NoSessionId(s) THEN
    /\ last' = Response(s, OpSettingsPut, 401, 0)
    /\ UNCHANGED <<db, pending>>
  ELSE LET userId == ParseInt(s.id).v IN
    IF userId \in DOMAIN users THEN
      /\ user_settings' =
           IF b.alert_timer = "absent" THEN user_settings
           ELSE Put(user_settings, userId, [alert_timer |-> b.alert_timer = "true"])
      /\ last' = Response(s, OpSettingsPut, 200, 1)
      /\ UNCHANGED <<users, nextUserId, fridge_items, nextItemId, cooking_logs, nextLogId,
                     recipes, nextRecipeId, recipe_ingredients, recipe_steps, pending>>
    ELSE
      /\ last' = Response(s, OpSettingsPut, 500, 1)
      /\ UNCHANGED <<db, pending>>

UserDeleteCheck(s) ==
  IF NoSessionId(s) THEN Response(s, OpUserDelete, 401, 0)
  ELSE IF ParseInt(s.id).v \notin DOMAIN users THEN Response(s, OpUserDelete, 404, 1)
  ELSE Response(s, OpUserDelete, 0, 1)

UserDeleteStart(s) ==
  LET r == UserDeleteCheck(s) IN
  /\ IF r.status # 0
     THEN last' = r /\ UNCHANGED pending
     ELSE /\ Cardinality(pending) < MaxInflight
          /\ pending' = pending \cup {[kind |-> s.kind, op |-> OpUserDelete, user |-> ParseInt(s.id).v,
                                       id |-> ParseInt(s.id).v, data |-> NoData]}
          /\ UNCHANGED last
  /\ UNCHANGED db

\* An account deletion that removes the users row and nothing else.
UserDeleteCommitRowOnly(q) ==
  /\ q \in pending
  /\ q.op = OpUserDelete
  /\ pending' = pending \ {q}
  /\ users' = IF q.id \in DOMAIN users THEN Remove(users, q.id) ELSE users
  /\ last' = Response(q, OpUserDelete, IF q.id \in DOMAIN users THEN 200 ELSE 500, 2)
  /\ UNCHANGED <<nextUserId, user_settings, fridge_items, nextItemId, cooking_logs,
                 nextLogId, recipes, nextRecipeId, recipe_ingredients, recipe_steps>>

\* prisma.users.delete: throws when the row is gone.
UserDeleteCommit(q) ==
  /\ q \in pending
  /\ q.op = OpUserDelete
  /\ pending' = pending \ {q}
  /\ IF q.id \in DOMAIN users
     THEN /\ CascadeUsersDelete(q.id)
          /\ last' = Response(q, OpUserDelete, 200, 2)
     ELSE /\ UNCHANGED <<users, user_settings, fridge_items, cooking_logs, recipes,
                         recipe_ingredients, recipe_steps>>
          /\ last' = Response(q, OpUserDelete, 500, 2)
  /\ UNCHANGED <<nextUserId, nextItemId, nextLogId, nextRecipeId>>

SignupBodies == [nickname : {"", "lucy"}, terms_agreements : {"false"}]

\* !nickname || typeof terms_agreements !== 'boolean'
SignupErrors(b) == b.nickname = "" \/ b.terms_agreements = "absent"

\* prisma.users.update: throws when the users row is gone.
SignupPost(s, b) ==
  IF NoSessionId(s) THEN
    /\ last' = Response(s, OpSignupPost, 401, 0)
    /\ UNCHANGED <<db, pending>>
  ELSE IF SignupErrors(b) THEN
    /\ last' = Response(s, OpSignupPost, 400, 0)
    /\ UNCHANGED <<db, pending>>
  ELSE LET userId == ParseInt(s.id).v IN
    IF userId \in DOMAIN users THEN
      /\ users' = [users EXCEPT ![userId].terms_agreements = (b.terms_agreements = "true"),
                                ![userId].terms_agreed_at = TRUE]
      /\ last' = Response(s, OpSignupPost, 200, 1)
      /\ UNCHANGED <<nextUserId, user_settings, fridge_items, nextItemId, cooking_logs,
                     nextLogId, recipes, nextRecipeId, recipe_ingredients, recipe_steps,
                     pending>>
    ELSE
      /\ last' = Response(s, OpSignupPost, 500, 1)
      /\ UNCHANGED <<db, pending>>

\* --------------------------------------------------------------- the system
\* Responses are observed one at a time: the client reads a response before the
\* next handler step is taken.
Ready == last = NoResponse

ReadResponse ==
  /\ last # NoResponse
  /\ last' = NoResponse
  /\ UNCHANGED <<db, pending>>

Next ==
  \/ ReadResponse
  \/ Ready /\ SignInNew
  \/ \E s \in Sessions : Ready /\ FridgeGet(s, Midday, UTC)
  \/ \E s \in Sessions, b \in FridgePostBodies : Ready /\ FridgePost(s, b, Midday, UTC)
  \/ \E s \in Sessions, p \in IdParams(MaxItems), b \in FridgePutBodies :
       Ready /\ FridgePutStart(s, p, b)
  \/ \E q \in pending : Ready /\ FridgePutCommit(q)
  \/ \E s \in Sessions, p \in IdParams(MaxItems) : Ready /\ FridgeDeleteStart(s, p)
  \/ \E q \in pending : Ready /\ FridgeDeleteCommit(q)
  \/ \E s \in Sessions : Ready /\ LogsGet(s)
  \/ \E s \in Sessions, b \in LogsPostBodies : Ready /\ LogsPost(s, b, Midday)
  \/ \E s \in Sessions, p \in IdParams(MaxLogs), b \in LogsPutBodies :
       Ready /\ LogsPutStart(s, p, b)
  \/ \E q \in pending : Ready /\ LogsPutCommit(q)
  \/ \E s \in Sessions, p \in IdParams(MaxLogs) : Ready /\ LogsDeleteStart(s, p)
  \/ \E q \in pending : Ready /\ LogsDeleteCommit(q)
  \/ \E s \in Sessions : Ready /\ RecipesGet(s)
  \/ \E s \in Sessions, b \in RecipePostBodies : Ready /\ RecipesPost(s, b)
  \/ \E s \in Sessions, p \in IdParams(MaxRecipes) : Ready /\ RecipeGet(s, p, NoServings)
  \/ \E s \in Sessions, p \in IdParams(MaxRecipes) : Ready /\ RecipeStepsGet(s, p)
  \/ \E s \in Sessions, p \in IdParams(MaxRecipes) : Ready /\ RecipeLogsGet(s, p)
  \/ \E s \in Sessions : Ready /\ DashboardGet(s, Midday, UTC)
  \/ \E s \in Sessions : Ready /\ MasterGet(s)
  \/ \E s \in Sessions : Ready /\ ProfileGet(s)
  \/ \E s \in Sessions, b \in SettingsPutBodies : Ready /\ SettingsPut(s, b)
  \/ \E s \in Sessions : Ready /\ UserDeleteStart(s)
  \/ \E q \in pending : Ready /\ UserDeleteCommit(q)
  \/ \E s \in Sessions, b \in SignupBodies : Ready /\ SignupPost(s, b)

Spec == Init /\ [][Next]_vars

\* ------------------------------------------------- recipe extraction
\* POST /api/recipes/extract: a request in flight is a record of pending whose
\* data is the handler's local state and the outcomes it has seen so far.
OpExtract == "POST /api/recipes/extract"

PLACEHOLDER_TITLE == <<"N", "o", "N", "a", "m", "e">>

TEXT_LIMIT == 30000

\* The url of the request body: absent, or a string given by its parts.
NoUrl == [given |-> FALSE, parts |-> <<>>]

Url(parts) == [given |-> TRUE, parts |-> parts]

ExtractUrls ==
  {NoUrl, Url(<<>>), Url(<<"https://www.", "youtube.com", "/watch?v=x">>),
   Url(<<"https://", "youtu.be", "/x">>), Url(<<"https://", "blog.example", "/r">>)}

\* !url
UrlMissing(url) == ~url.given \/ url.parts = <<>>

\* url.includes('youtube.com') || url.includes('youtu.be')
IsVideoUrl(url) ==
  \E i \in 1..Len(url.parts) : url.parts[i] \in {"youtube.com", "youtu.be"}

\* transcript.map((item) => item.text).join(' ')
RECURSIVE JoinTexts(_)
JoinTexts(segs) ==
  IF segs = <<>> THEN <<>>
  ELSE IF Len(segs) = 1 THEN segs[1]
  ELSE segs[1] \o <<" ">> \o JoinTexts(Tail(segs))

\* .replace(/\s+/g, ' '): every run of white space becomes one blank.
\* (The characters kept are those that are no white space and the first of
\* every run of white space, which becomes a blank.)
CollapseSpaces(s) ==
  LET kept == SelectSeq([i \in 1..Len(s) |-> i],
                        LAMBDA i : ~IsSpace(s[i]) \/ i = 1 \/ ~IsSpace(s[i - 1]))
  IN [k \in 1..Len(kept) |-> IF IsSpace(s[kept[k]]) THEN " " ELSE s[kept[k]]]

\* extractedText.substring(0, 30000) when longer
Truncated(s) == IF Len(s) > TEXT_LIMIT THEN SubSeq(s, 1, TEXT_LIMIT) ELSE s

\* $('title').text() || $('h1').first().text() || ''
FallbackTitle(page) == IF page.title # <<>> THEN page.title ELSE page.h1

\* A text check that forgets the white-space case.
TextMissingEmptyOnly(text) == text = <<>>

\* !extractedText || extractedText.trim().length === 0
TextMissing(text) == text = <<>> \/ Len(Trim(text)) = 0

\* What the outbound calls can answer.
Transcripts == {<<>>, << <<>>, <<>> >>, << <<"a">> >>, << <<"a">>, <<"b">> >>}

Pages ==
  [title : {<<>>, <<" ">>, <<"T">>}, h1 : {<<>>, <<" ">>, <<"H">>},
   body : {<<>>, <<" ", " ">>, <<"a">>, <<" ", "a", " ", " ", "b">>}]

NoPage == [title |-> <<>>, h1 |-> <<>>, body |-> <<>>]

ModelTitles == {<<>>, <<" ">>, <<"M">>, <<" ", "M", " ">>}

Job(url, key) ==
  [pc |-> "start", url |-> url, key |-> key, transcript_calls |-> 0, fetch_calls |-> 0,
   llm_calls |-> 0, acquired |-> "no", page |-> NoPage, extractedText |-> <<>>,
   fallbackTitle |-> <<>>, llm |-> "no", has_title |-> FALSE, title |-> <<>>]

ExtractRequest(job) ==
  [kind |-> "anonymous", op |-> OpExtract, user |-> 0, id |-> 0, data |-> job]

\* NextResponse.json of the extraction handler: the job as it ended and, for a
\* success, the title of the returned recipe.
ExtractReply(job, status, title) ==
  Reply(ExtractRequest(job), OpExtract, status, 0, {},
        [job |-> [job EXCEPT !.pc = "done"], success |-> status = 200, title |-> title])


\* The request arrives: without a url it is answered at once; otherwise the
\* transcript fetch (video url) or the page fetch (any other url) is issued.
\* The handler shares no state between requests, so one request is followed
\* at a time.
ExtractStart(url, key) ==
  /\ pending = {}
  /\ IF UrlMissing(url) THEN
       /\ last' = ExtractReply(Job(url, key), 400, <<>>)
       /\ UNCHANGED pending
     ELSE IF IsVideoUrl(url) THEN
       /\ pending' = {ExtractRequest([Job(url, key) EXCEPT !.pc = "transcript",
                                                            !.transcript_calls = 1])}
       /\ UNCHANGED last
     ELSE
       /\ pending' = {ExtractRequest([Job(url, key) EXCEPT !.pc = "fetch",
                                                            !.fetch_calls = 1])}
       /\ UNCHANGED last
  /\ UNCHANGED db

\* After the text is in: the empty-text check, the credential check, and the
\* call of the language model.
AfterAcquire(q, job) ==
  IF TextMissing(job.extractedText) THEN
    /\ last' = ExtractReply(job, 400, <<>>)
    /\ pending' = pending \ {q}
  ELSE IF ~job.key THEN
    /\ last' = ExtractReply(job, 500, <<>>)
    /\ pending' = pending \ {q}
  ELSE
    /\ pending' = (pending \ {q}) \cup
         {ExtractRequest([job EXCEPT !.pc = "llm", !.llm_calls = @ + 1])}
    /\ UNCHANGED last

TranscriptOutcomes ==
  {[throws |-> TRUE, segs |-> <<>>]} \cup {[throws |-> FALSE, segs |-> t] : t \in Transcripts}

\* A transcript fetch that is issued once more after it has thrown.
TranscriptReturnRetry(q, o) ==
  /\ q \in pending
  /\ q.op = OpExtract
  /\ q.data.pc = "transcript"
  /\ IF o.throws /\ q.data.transcript_calls < 2 THEN
       /\ pending' = (pending \ {q}) \cup
            {ExtractRequest([q.data EXCEPT !.transcript_calls = @ + 1])}
       /\ UNCHANGED last
     ELSE IF o.throws THEN
       /\ last' = ExtractReply([q.data EXCEPT !.acquired = "throws"], 400, <<>>)
       /\ pending' = pending \ {q}
     ELSE AfterAcquire(q, [q.data EXCEPT !.acquired = "ok",
                                          !.extractedText = JoinTexts(o.segs)])
  /\ UNCHANGED db

\* YoutubeTranscript.fetchTranscript(url) returns or throws.
TranscriptReturn(q, o) ==
  /\ q \in pending
  /\ q.op = OpExtract
  /\ q.data.pc = "transcript"
  /\ IF o.throws THEN
       /\ last' = ExtractReply([q.data EXCEPT !.acquired = "throws"], 400, <<>>)
       /\ pending' = pending \ {q}
     ELSE AfterAcquire(q, [q.data EXCEPT !.acquired = "ok",
                                          !.extractedText = JoinTexts(o.segs)])
  /\ UNCHANGED db

PageOutcomes ==
  {[kind |-> k, page |-> NoPage] : k \in {"throws", "not_ok"}}
    \cup {[kind |-> "ok", page |-> g] : g \in Pages}

\* fetch(url) returns or throws; a response that is not OK is thrown as well.
PageReturn(q, o) ==
  /\ q \in pending
  /\ q.op = OpExtract
  /\ q.data.pc = "fetch"
  /\ IF o.kind # "ok" THEN
       /\ last' = ExtractReply([q.data EXCEPT !.acquired = o.kind], 400, <<>>)
       /\ pending' = pending \ {q}
     ELSE AfterAcquire(q, [q.data EXCEPT
                             !.acquired = "ok",
                             !.page = o.page,
                             !.extractedText = Truncated(Trim(CollapseSpaces(o.page.body))),
                             !.fallbackTitle = FallbackTitle(o.page)])
  /\ UNCHANGED db

\* The model call throws, or returns no content, text that is no JSON, the JSON
\* null, or a recipe object with or without a title.
LlmOutcomes ==
  {[kind |-> k, has_title |-> FALSE, title |-> <<>>]
     : k \in {"throws", "empty", "unparsable", "null", "object"}}
    \cup {[kind |-> "object", has_title |-> TRUE, title |-> t] : t \in ModelTitles}

\* if (!recipeData.title || recipeData.title.trim() === '')
\*   recipeData.title = fallbackTitle || PLACEHOLDER
RecipeTitle(o, fallbackTitle) ==
  IF ~o.has_title \/ o.title = <<>> \/ Trim(o.title) = <<>>
  THEN IF fallbackTitle # <<>> THEN fallbackTitle ELSE PLACEHOLDER_TITLE
  ELSE o.title

LlmReturn(q, o) ==
  /\ q \in pending
  /\ q.op = OpExtract
  /\ q.data.pc = "llm"
  /\ pending' = pending \ {q}
  /\ LET job == [q.data EXCEPT !.llm = o.kind, !.has_title = o.has_title,
                               !.title = o.title] IN
     last' = IF o.kind = "object"
             THEN ExtractReply(job, 200, RecipeTitle(o, job.fallbackTitle))
             ELSE ExtractReply(job, 500, <<>>)
  /\ UNCHANGED db

NextExtract ==
  \/ ReadResponse
  \/ \E url \in ExtractUrls, key \in BOOLEAN : Ready /\ ExtractStart(url, key)
  \/ \E q \in pending, o \in TranscriptOutcomes : Ready /\ TranscriptReturn(q, o)
  \/ \E q \in pending, o \in PageOutcomes : Ready /\ PageReturn(q, o)
  \/ \E q \in pending, o \in LlmOutcomes : Ready /\ LlmReturn(q, o)

SpecExtract == Init /\ [][NextExtract]_vars

\* ------------------------------------------------- servings scaling
\* Recipes with and without servings, among them servings 0, which the create
\* handler stores as given; amounts 1.00 and 2.50 and an ingredient without.
ServingsRecipeBodies ==
  [title : {<<"t">>}, servings_given : BOOLEAN, servings : {0, 2, 3},
   ingredients : {<<Ingredient(TRUE, 100)>>, <<Ingredient(FALSE, 0), Ingredient(TRUE, 250)>>},
   steps : {<<Step1>>}]

ServingsQueries ==
  {NoServings} \cup
    {ServingsParam(t) : t \in {<<"0">>, <<"-", "2">>, <<"2">>, <<"3">>, <<"3", "a">>, <<"x">>}}

NextServings ==
  \/ ReadResponse
  \/ Ready /\ SignInNew
  \/ \E s \in Sessions, b \in ServingsRecipeBodies : Ready /\ RecipesPost(s, b)
  \/ \E s \in Sessions, p \in IdParams(MaxRecipes), q \in ServingsQueries :
       Ready /\ RecipeGet(s, p, q)

SpecServings == Init /\ [][NextServings]_vars

\* ------------------------------------------------------------ d_day
\* Items with a date typed in, with the shelf life of a master ingredient, and
\* without expiry date, listed at any time of the day in any of the time zones.
DDayBodies ==
  [name : {<<"e">>, <<"e", "g", "g">>}, has_quantity : {FALSE}, quantity : {0},
   unit : {NoText},
   expiry_date : {NoExpiry, BadExpiry} \cup {ExpiryOn(d) : d \in 1..4}]

NextDDay ==
  \/ ReadResponse
  \/ Ready /\ SignInNew
  \/ \E s \in Sessions, b \in DDayBodies, now \in Clock, zone \in Zones :
       Ready /\ FridgePost(s, b, now, zone)
  \/ \E s \in Sessions, now \in Clock, zone \in Zones : Ready /\ FridgeGet(s, now, zone)
  \/ \E s \in Sessions, now \in Clock, zone \in Zones : Ready /\ DashboardGet(s, now, zone)

SpecDDay == Init /\ [][NextDDay]_vars

\* ------------------------------------------------------- fridge items
\* Items named like a master ingredient and not, with and without quantity,
\* unit and expiry date, created early and late in the day in any of the time
\* zones, and edited afterwards.
FridgeItemBodies ==
  [name : {<<"e">>, <<" ", "e", "g", "g">>, <<"o", "i", "l">>}, has_quantity : {FALSE},
   quantity : {0}, unit : {NoText, TextOf(<<" ">>), TextOf(<<" ", "g">>)},
   expiry_date : {NoExpiry}]
    \cup
  [name : {<<"e">>, <<" ", "e", "g", "g">>, <<"o", "i", "l">>}, has_quantity : {TRUE},
   quantity : {3}, unit : {NoText, TextOf(<<" ">>), TextOf(<<" ", "g">>)},
   expiry_date : {ExpiryOn(3)}]

FridgeEditBodies ==
  {[has_quantity |-> FALSE, quantity |-> 0, unit |-> NoText, expiry_date |-> NoExpiry],
   [has_quantity |-> TRUE, quantity |-> 5, unit |-> NoText, expiry_date |-> NoExpiry],
   [has_quantity |-> FALSE, quantity |-> 0, unit |-> TextOf(<<" ">>), expiry_date |-> NoExpiry],
   [has_quantity |-> FALSE, quantity |-> 0, unit |-> TextOf(<<"k", " ">>),
    expiry_date |-> ExpiryOn(1)],
   [has_quantity |-> TRUE, quantity |-> 0, unit |-> NoText, expiry_date |-> BadExpiry]}

\* Late in the day (UTC): the next day in the zone ahead of UTC.
FridgeClock == {HOURS_PER_DAY + 23}

\* No response is unread and no request is in flight.
Idle == Ready /\ pending = {}

NextFridge ==
  \/ ReadResponse
  \/ Ready /\ SignInNew
  \/ \E s \in Sessions, b \in FridgeItemBodies, now \in FridgeClock, zone \in Zones :
       Idle /\ FridgePost(s, b, now, zone)
  \/ \E s \in Sessions, p \in IdParams(MaxItems), b \in FridgeEditBodies :
       Idle /\ FridgePutStart(s, p, b)
  \/ \E q \in pending : Ready /\ FridgePutCommit(q)

SpecFridge == Init /\ [][NextFridge]_vars

\* ------------------------------------------------------- statistics
\* The statistics are read off tables of up to MaxStatLogs cooking logs of two
\* users on one recipe, cooked in the first and in the second month.
MaxStatLogs == 3

StatLogRows ==
  [user_id : {1, 2}, recipe_id : {1}, status : VALID_STATUS_VALUES,
   lesson_note : {<<"n">>}, companion : {NullText},
   cooked_at : {HOURS_PER_DAY + 12, MonthDays * HOURS_PER_DAY + 1}]

InitStats ==
  /\ users = [u \in 1..2 |-> Member(u)]
  /\ nextUserId = 2
  /\ user_settings = [u \in 1..2 |-> [alert_timer |-> TRUE]]
  /\ fridge_items = <<>>
  /\ nextItemId = 0
  /\ \E n \in 0..MaxStatLogs : cooking_logs \in [1..n -> StatLogRows]
  /\ nextLogId = Len(cooking_logs)
  /\ recipes = <<[user_id |-> 1, title |-> <<"t">>, servings |-> 1]>>
  /\ nextRecipeId = 1
  /\ recipe_ingredients =
       {[recipe_id |-> 1, ri_id |-> 1, name |-> <<"i">>, amount_null |-> TRUE, amount |-> 0]}
  /\ recipe_steps =
       {[recipe_id |-> 1, step_id |-> 1, step_order |-> 1, instruction |-> <<"s">>]}
  /\ pending = {}
  /\ last = NoResponse

\* Requests at noon of the first month and around the first midnight (UTC) of
\* the second, which the zones place in different months.
StatClock ==
  {HOURS_PER_DAY + 12, MonthDays * HOURS_PER_DAY + 1, MonthDays * HOURS_PER_DAY + 23}

\* The clock of a request is not before the time a log was written.
NotBeforeLogs(now) == \A l \in DOMAIN cooking_logs : cooking_logs[l].cooked_at <= now

NextStats ==
  \/ ReadResponse
  \/ \E s \in Sessions : Ready /\ RecipesGet(s)
  \/ \E s \in Sessions, now \in StatClock, zone \in Zones :
       Ready /\ NotBeforeLogs(now) /\ DashboardGet(s, now, zone)

SpecStats == InitStats /\ [][NextStats]_vars

\* ------------------------------------------ cooking-log requests alone
\* A string of n times the character c.
Repeat(c, n) == [i \in 1..n |-> c]

\* Companions: absent, blank, 50 characters between blanks, 51 characters.
Companions ==
  {NoText, TextOf(<<" ">>), TextOf(<<" ">> \o Repeat("c", COMPANION_MAX) \o <<" ">>),
   TextOf(Repeat("c", COMPANION_MAX + 1))}

CreateCookingLogBodies ==
  [status : {NoStatus, Status(""), Status("SUCCESS"), Status("DONE")}, recipe_id : {1},
   lesson_note : {NoText, TextOf(<<>>), TextOf(<<" ">>), TextOf(<<" ", "n">>)},
   companion : Companions]

UpdateLogBodies ==
  [status : {NoStatus, Status("FAIL"), Status("DONE")},
   lesson_note : {NoText, TextOf(<<" ">>), TextOf(<<"m", " ">>)},
   companion : Companions]

\* Two users and a recipe of the first, no log yet.
InitLogs ==
  /\ users = [u \in 1..2 |-> Member(u)]
  /\ nextUserId = 2
  /\ user_settings = [u \in 1..2 |-> [alert_timer |-> TRUE]]
  /\ fridge_items = <<>>
  /\ nextItemId = 0
  /\ cooking_logs = <<>>
  /\ nextLogId = 0
  /\ recipes = <<[user_id |-> 1, title |-> <<"t">>, servings |-> 1]>>
  /\ nextRecipeId = 1
  /\ recipe_ingredients =
       {[recipe_id |-> 1, ri_id |-> 1, name |-> <<"i">>, amount_null |-> TRUE, amount |-> 0]}
  /\ recipe_steps =
       {[recipe_id |-> 1, step_id |-> 1, step_order |-> 1, instruction |-> <<"s">>]}
  /\ pending = {}
  /\ last = NoResponse

NextLogs ==
  \/ ReadResponse
  \/ \E s \in Sessions, b \in CreateCookingLogBodies : Idle /\ LogsPost(s, b, Midday)
  \/ \E s \in Sessions, p \in IdParams(MaxLogs), b \in UpdateLogBodies :
       Idle /\ LogsPutStart(s, p, b)
  \/ \E q \in pending : LogsPutCommit(q)

SpecLogs == InitLogs /\ [][NextLogs]_vars

\* ------------------------------------------------ recipe creation alone
\* An ingredient of the given name without amount.
Named(name) == [Ingredient(FALSE, 0) EXCEPT !.name = name]

\* ingredients: missing or empty, one, two, elements without name, a negative
\* amount, a null element.
IngredientLists ==
  {<<>>, <<Ingredient(TRUE, 100)>>, <<Named(<<" ", "a">>), Ingredient(TRUE, -50)>>,
   <<Named(<<" ">>), Ingredient(FALSE, 0), Named(<<>>)>>, <<Ingredient(FALSE, 0), NullIngredient>>}

\* steps: missing or empty, one, two of the same order, a step with neither a
\* number nor an instruction, a null element.
StepLists ==
  {<<>>, <<Step1>>, <<Step1, [Step1 EXCEPT !.instruction = <<"r", " ">>]>>,
   <<Step1, [Step1 EXCEPT !.order_is_number = FALSE, !.instruction = <<" ">>]>>,
   <<NullStep>>}

RecipeBodies ==
  [title : {<<>>, <<" ">>, <<" ", "t">>}, servings_given : {FALSE}, servings : {0},
   ingredients : IngredientLists, steps : StepLists]
    \cup
  [title : {<<>>, <<" ">>, <<" ", "t">>}, servings_given : {TRUE}, servings : {-1, 0, 2},
   ingredients : IngredientLists, steps : StepLists]

\* User 1, and user 2 who has deleted the account and still holds a session.
InitRecipes ==
  /\ users = [u \in {1} |-> Member(u)]
  /\ nextUserId = 2
  /\ user_settings = [u \in {1} |-> [alert_timer |-> TRUE]]
  /\ fridge_items = <<>>
  /\ nextItemId = 0
  /\ cooking_logs = <<>>
  /\ nextLogId = 0
  /\ recipes = <<>>
  /\ nextRecipeId = 0
  /\ recipe_ingredients = {}
  /\ recipe_steps = {}
  /\ pending = {}
  /\ last = NoResponse

NextRecipes ==
  \/ ReadResponse
  \/ \E s \in Sessions, b \in RecipeBodies : Ready /\ RecipesPost(s, b)

SpecRecipes == InitRecipes /\ [][NextRecipes]_vars

\* ------------------------------------------------- the two PUT handlers
\* Edits of a cooking log: nothing, one field, two fields, a blank companion,
\* an unknown status.
LogEditBodies ==
  {[status |-> NoStatus, lesson_note |-> NoText, companion |-> NoText],
   [status |-> Status("FAIL"), lesson_note |-> NoText, companion |-> NoText],
   [status |-> NoStatus, lesson_note |-> TextOf(<<"m", " ">>), companion |-> NoText],
   [status |-> NoStatus, lesson_note |-> NoText, companion |-> TextOf(<<" ">>)],
   [status |-> Status("REGRET"), lesson_note |-> NoText, companion |-> TextOf(<<" ", "c">>)],
   [status |-> Status("DONE"), lesson_note |-> TextOf(<<"m">>), companion |-> NoText]}

\* Items and logs are created, then edited by their owner or by others.
NextUpdate ==
  \/ ReadResponse
  \/ \E s \in Sessions, b \in FridgePostBodies : Idle /\ FridgePost(s, b, Midday, UTC)
  \/ \E s \in Sessions, p \in IdParams(MaxItems), b \in FridgeEditBodies :
       Idle /\ FridgePutStart(s, p, b)
  \/ \E q \in pending : FridgePutCommit(q)
  \/ \E s \in Sessions, b \in LogsPostBodies : Idle /\ LogsPost(s, b, Midday)
  \/ \E s \in Sessions, p \in IdParams(MaxLogs), b \in LogEditBodies :
       Idle /\ LogsPutStart(s, p, b)
  \/ \E q \in pending : LogsPutCommit(q)

SpecUpdate == InitLogs /\ [][NextUpdate]_vars

\* ------------------------------------------------------ response bodies
OpAuthCheck == "GET /api/auth/check"

\* GET /api/auth/check: !session || !session.user
AuthCheckGet(s) ==
  /\ last' = IF s.kind = "null" \/ s.kind = "nouser" THEN Response(s, OpAuthCheck, 401, 0)
             ELSE Response(s, OpAuthCheck, 200, 0)
  /\ UNCHANGED <<db, pending>>

\* The handlers that take a session.
SessionOps ==
  {OpFridgeGet, OpFridgePost, OpFridgePut, OpFridgeDelete, OpLogsGet, OpLogsPost, OpLogsPut,
   OpLogsDelete, OpRecipesGet, OpRecipesPost, OpRecipeGet, OpRecipeStepsGet, OpRecipeLogsGet,
   OpDashboardGet, OpMasterGet, OpProfileGet, OpSettingsPut, OpUserDelete, OpSignupPost,
   OpAuthCheck}

\* getServerSession or req.json() rejects: the handler's catch block answers.
SessionOrBodyThrows(s, op) ==
  /\ last' = Response(s, op, 500, 0)
  /\ UNCHANGED <<db, pending>>

\* A field of a response body and what it holds: "true" or "false", a fixed
\* text, the text of the caught error, a list of messages, or data.
Field(key, is) == [key |-> key, is |-> is]

\* { success: false, message }
ErrorBody == {Field("success", "false"), Field("message", "text")}

\* The 400 responses that carry the errors array: the validation of the POST
\* handlers and, past the lookup, of the PUT handlers.
HasErrors(r) ==
  /\ r.status = 400
  /\ \/ r.op \in {OpFridgePost, OpLogsPost, OpRecipesPost}
     \/ r.op \in {OpFridgePut, OpLogsPut} /\ r.calls = 1

\* The body each handler passes to NextResponse.json with the status of r.
Shape(r) ==
  IF r.op = OpAuthCheck THEN
    IF r.status = 200 THEN {Field("authenticated", "true"), Field("user", "data")}
    ELSE IF r.status = 401 THEN {Field("authenticated", "false"), Field("message", "text")}
    ELSE {Field("error", "text")}
  ELSE IF r.op = OpProfileGet THEN
    IF r.status = 200 THEN {Field("user", "data")} ELSE {Field("error", "text")}
  ELSE IF r.op \in {OpSignupPost, OpSettingsPut} THEN
    IF r.status = 200 THEN {Field("message", "text"), Field("user", "data")}
    ELSE {Field("error", "text")}
  ELSE IF r.op = OpExtract THEN
    IF r.status = 200 THEN {Field("success", "true"), Field("data", "data")}
    ELSE IF r.status = 500 /\ r.body.job.llm # "no"
      THEN {Field("success", "false"), Field("error", "error text")}
    ELSE {Field("success", "false"), Field("error", "text")}
  ELSE IF r.status = 500 THEN ErrorBody \cup {Field("error", "error text")}
  ELSE IF HasErrors(r) THEN ErrorBody \cup {Field("errors", "list")}
  ELSE IF r.status >= 400 THEN ErrorBody
  ELSE IF r.op = OpRecipesGet
    THEN {Field("success", "true"), Field("stats", "data"), Field("data", "data")}
  ELSE IF r.op \in {OpFridgePost, OpFridgePut, OpLogsPost, OpLogsPut, OpRecipesPost}
    THEN {Field("success", "true"), Field("message", "text"), Field("data", "data")}
  ELSE IF r.op \in {OpFridgeDelete, OpLogsDelete, OpUserDelete}
    THEN {Field("success", "true"), Field("message", "text")}
  ELSE {Field("success", "true"), Field("data", "data")}

\* One request at a time, every handler; the extraction, which takes no
\* session and touches no table, before the first sign-in.
NextEnvelope ==
  \/ ReadResponse
  \/ Idle /\ SignInNew
  \/ \E s \in Sessions : Idle /\ FridgeGet(s, Midday, UTC)
  \/ \E s \in Sessions, b \in FridgePostBodies : Idle /\ FridgePost(s, b, Midday, UTC)
  \/ \E s \in Sessions, p \in IdParams(MaxItems), b \in FridgePutBodies :
       Idle /\ FridgePutStart(s, p, b)
  \/ \E q \in pending : FridgePutCommit(q)
  \/ \E s \in Sessions, p \in IdParams(MaxItems) : Idle /\ FridgeDeleteStart(s, p)
  \/ \E q \in pending : FridgeDeleteCommit(q)
  \/ \E s \in Sessions : Idle /\ LogsGet(s)
  \/ \E s \in Sessions, b \in LogsPostBodies : Idle /\ LogsPost(s, b, Midday)
  \/ \E s \in Sessions, p \in IdParams(MaxLogs), b \in LogsPutBodies :
       Idle /\ LogsPutStart(s, p, b)
  \/ \E q \in pending : LogsPutCommit(q)
  \/ \E s \in Sessions, p \in IdParams(MaxLogs) : Idle /\ LogsDeleteStart(s, p)
  \/ \E q \in pending : LogsDeleteCommit(q)
  \/ \E s \in Sessions : Idle /\ RecipesGet(s)
  \/ \E s \in Sessions, b \in RecipePostBodies : Idle /\ RecipesPost(s, b)
  \/ \E s \in Sessions, p \in IdParams(MaxRecipes) : Idle /\ RecipeGet(s, p, NoServings)
  \/ \E s \in Sessions, p \in IdParams(MaxRecipes) : Idle /\ RecipeStepsGet(s, p)
  \/ \E s \in Sessions, p \in IdParams(MaxRecipes) : Idle /\ RecipeLogsGet(s, p)
  \/ \E s \in Sessions : Idle /\ DashboardGet(s, Midday, UTC)
  \/ \E s \in Sessions : Idle /\ MasterGet(s)
  \/ \E s \in Sessions : Idle /\ ProfileGet(s)
  \/ \E s \in Sessions, b \in SettingsPutBodies : Idle /\ SettingsPut(s, b)
  \/ \E s \in Sessions : Idle /\ UserDeleteStart(s)
  \/ \E q \in pending : UserDeleteCommit(q)
  \/ \E s \in Sessions, b \in SignupBodies : Idle /\ SignupPost(s, b)
  \/ \E s \in Sessions : Idle /\ AuthCheckGet(s)
  \/ \E s \in Sessions, op \in SessionOps : Idle /\ SessionOrBodyThrows(s, op)
  \/ \E url \in ExtractUrls, key \in BOOLEAN : Ready /\ nextUserId = 0 /\ ExtractStart(url, key)
  \/ \E q \in pending, o \in TranscriptOutcomes : TranscriptReturn(q, o)
  \/ \E q \in pending, o \in PageOutcomes : PageReturn(q, o)
  \/ \E q \in pending, o \in LlmOutcomes : LlmReturn(q, o)

SpecEnvelope == Init /\ [][NextEnvelope]_vars

\* ------------------------------------------------------- ownership (C1)
\* The sessions of the signed-in users other than u.
Strangers(u) == {SessionOf(v) : v \in (1..nextUserId) \ {u}}

Refused == last'.status = 403 /\ UNCHANGED <<db, pending>>

\* The step took a request made under user u's session to its database call.
ServedFor(u) == \E q \in pending \ pending' : q.user = u

ItemTouched(i) ==
  i \notin DOMAIN fridge_items' \/ fridge_items'[i] # fridge_items[i]

\* The fields a request can write; recipe_id is left to the database's
\* referential action on the recipe.
LogTouched(l) ==
  \/ l \notin DOMAIN cooking_logs'
  \/ cooking_logs'[l].user_id # cooking_logs[l].user_id
  \/ cooking_logs'[l].status # cooking_logs[l].status
  \/ cooking_logs'[l].lesson_note # cooking_logs[l].lesson_note
  \/ cooking_logs'[l].companion # cooking_logs[l].companion

C2_NoSession401 ==
  [][/\ (last' # NoResponse /\ ~last'.authed) =>
          /\ last'.status = 401
          /\ last'.calls = 0
          /\ UNCHANGED <<db, pending>>
     /\ \A q \in pending' : Authed(q)]_vars

\* A populated database, and a request without user id answered by the account
\* deletion handler.
C2_Witness ==
  /\ last.op = OpUserDelete
  /\ ~last.authed
  /\ last.status = 401
  /\ users # <<>>
  /\ fridge_items # <<>>

\* ------------------------------------------------- recipe read access (C3)
Hidden == last'.status = 403 /\ last'.discloses = {}

\* C3: the recipe detail, the recipe's steps and the recipe's logs, requested
\* for an existing recipe under the session of a signed-in user who is not its
\* owner, are answered 403 with none of the recipe's rows in the body.
C3_StrangerRefused ==
  [][\A r \in DOMAIN recipes : \A s \in Strangers(recipes[r].user_id) :
       /\ RecipeGet(s, IntToStr(r), NoServings) => Hidden
       /\ RecipeStepsGet(s, IntToStr(r)) => Hidden
       /\ RecipeLogsGet(s, IntToStr(r)) => Hidden]_vars

\* ------------------------------------------------- missing records (C4)
\* The record a request in flight addresses is gone.
Missing(q) ==
  IF q.op \in {OpFridgePut, OpFridgeDelete} THEN q.id \notin DOMAIN fridge_items
  ELSE IF q.op \in {OpLogsPut, OpLogsDelete} THEN q.id \notin DOMAIN cooking_logs
  ELSE q.id \notin DOMAIN users

NotFound == last'.status = 404 /\ UNCHANGED db

\* C4: a PUT or DELETE of a fridge item or cooking log, or an account
\* deletion, whose record does not exist is answered 404 and changes nothing,
\* whether the record is missing at the handler's lookup or has been removed
\* by another request by the time of the handler's update or delete call.
C4_Missing404 ==
  [][/\ \A q \in pending : Missing(q) =>
          /\ FridgePutCommit(q) => NotFound
          /\ FridgeDeleteCommit(q) => NotFound
          /\ LogsPutCommit(q) => NotFound
          /\ LogsDeleteCommit(q) => NotFound
          /\ UserDeleteCommit(q) => NotFound
     /\ \A u \in 1..nextUserId :
          /\ \A i \in (1..MaxItems) \ DOMAIN fridge_items :
               /\ \A b \in FridgePutBodies :
                    FridgePutStart(SessionOf(u), IntToStr(i), b) => NotFound
               /\ FridgeDeleteStart(SessionOf(u), IntToStr(i)) => NotFound
          /\ \A l \in (1..MaxLogs) \ DOMAIN cooking_logs :
               /\ \A b \in LogsPutBodies :
                    LogsPutStart(SessionOf(u), IntToStr(l), b) => NotFound
               /\ LogsDeleteStart(SessionOf(u), IntToStr(l)) => NotFound
          /\ (u \notin DOMAIN users /\ UserDeleteStart(SessionOf(u))) => NotFound]_vars

Jobs ==
  {q.data : q \in {x \in pending : x.op = OpExtract}}
    \cup (IF last.op = OpExtract THEN {last.body.job} ELSE {})

OnlySpaces(t) == \A i \in 1..Len(t) : t[i] = " "

C7_CallsOnce ==
  \A j \in Jobs :
    /\ j.transcript_calls <= 1 /\ j.fetch_calls <= 1 /\ j.llm_calls <= 1
    /\ j.transcript_calls + j.fetch_calls = IF UrlMissing(j.url) THEN 0 ELSE 1
    /\ j.llm_calls = 1 =>
         (j.acquired = "ok" /\ ~OnlySpaces(j.extractedText) /\ j.key)
    /\ (j.acquired \in {"throws", "not_ok"} \/ j.llm \in {"throws", "empty", "unparsable"})
         => j.pc = "done"
    /\ j.acquired \in {"throws", "not_ok"} => j.llm_calls = 0

\* A page was fetched, the model was called once and answered, the request ended.
C7_Witness ==
  /\ last.op = OpExtract
  /\ last.status = 200
  /\ last.body.job.fetch_calls = 1
  /\ last.body.job.transcript_calls = 0
  /\ last.body.job.llm_calls = 1

\* ------------------------------------------------ title fallback (C8)
\* C8: in a successful extraction response a missing, empty or white-space
\* model title is replaced by the page's title text, else the first h1 text,
\* else the placeholder (always the placeholder for a video); a non-blank
\* model title is returned unchanged; and the returned title is never blank.
C8_TitleFallback ==
  (last.op = OpExtract /\ last.status = 200) =>
    LET j == last.body.job
        blank == ~j.has_title \/ OnlySpaces(j.title)
    IN /\ blank => last.body.title =
            IF j.page.title # <<>> THEN j.page.title
            ELSE IF j.page.h1 # <<>> THEN j.page.h1
            ELSE PLACEHOLDER_TITLE
       /\ (blank /\ IsVideoUrl(j.url)) => last.body.title = PLACEHOLDER_TITLE
       /\ ~blank => last.body.title = j.title
       /\ ~OnlySpaces(last.body.title)

\* ---------------------------------------------- servings scaling (C9)
\* The servings parameter is a positive integer: digits only, value above zero.
PositiveInteger(q) ==
  /\ q.given
  /\ q.text # <<>>
  /\ \A i \in 1..Len(q.text) : IsDigit(q.text[i])
  /\ DigitsVal(q.text, 0) > 0

\* C9: the detail of a recipe with base servings S requested with servings=R,
\* a positive integer other than S, returns each stored amount A as
\* round(A * R / S, 2); when R equals S or the parameter is absent, not a
\* number or not positive, every amount is returned as stored and
\* requested_servings is S; an ingredient without amount stays without.
C9_ServingsScaling ==
  [][\A s \in Sessions, r \in DOMAIN recipes, q \in ServingsQueries :
       (RecipeGet(s, IntToStr(r), q) /\ last'.status = 200) =>
         LET S == recipes[r].servings
             R == DigitsVal(q.text, 0)
             scaled == PositiveInteger(q) /\ R # S
         IN /\ ~scaled => last'.body.requested_servings = S
            /\ \A row \in {y \in recipe_ingredients : y.recipe_id = r} :
                 \E x \in last'.body.ingredients :
                   /\ x.ri_id = row.ri_id
                   /\ row.amount_null => x.amount.kind = "null"
                   /\ ~row.amount_null =>
                        /\ x.amount.kind = "number"
                        /\ scaled => (S # 0 /\ x.amount.v = RoundDiv(row.amount * R, S))
                        /\ ~scaled => x.amount.v = row.amount
  ]_vars

\* ------------------------------------------------------- d_day (C10)
\* The d_day the claim gives an item listed at the instant now: the number of
\* calendar days from the day of the request to the day of the expiry date.
CalendarDays(zone, now, expiry_date) ==
  IF expiry_date.null THEN Null
  ELSE Number(LocalDay(zone, expiry_date.t) - LocalDay(zone, now))

\* C10: GET /api/fridge and GET /api/dashboard report for every item with an
\* expiry date the signed number of calendar days from today to that date,
\* whatever the time of day of the request and of the stored date, and null
\* for an item without expiry date.
C10_DDayCalendarDays ==
  [][\A s \in Sessions, now \in Clock, zone \in Zones :
       /\ (FridgeGet(s, now, zone) /\ last'.status = 200) =>
            \A x \in last'.body :
              x.d_day = CalendarDays(zone, now, fridge_items[x.item_id].expiry_date)
       /\ (DashboardGet(s, now, zone) /\ last'.status = 200) =>
            \A x \in last'.body.expiring_items :
              x.d_day = CalendarDays(zone, now, fridge_items[x.item_id].expiry_date)
  ]_vars

\* -------------------------------------------------- success rate (C11)
\* rate is the success rate of total logs of which successes are SUCCESS:
\* null without logs, else the integer nearest to 100 * successes / total
\* (a half goes up), which lies in 0..100.
IsSuccessRate(rate, successes, total) ==
  IF total = 0 THEN rate = Null
  ELSE /\ ~rate.null
       /\ rate.v \in 0..100
       /\ 2 * rate.v * total - total <= 200 * successes
       /\ 200 * successes < 2 * rate.v * total + total

LogsOf(u) == {l \in DOMAIN cooking_logs : cooking_logs[l].user_id = u}

Successes(logs) == Cardinality({l \in logs : cooking_logs[l].status = "SUCCESS"})

\* The logs of u cooked in the calendar month of the instant now.
LogsOfMonth(u, zone, now) ==
  {l \in LogsOf(u) : LocalDay(zone, cooking_logs[l].cooked_at) \div MonthDays
                       = LocalDay(zone, now) \div MonthDays}

\* C11: GET /api/recipes reports as overall_success_rate the rounded share of
\* SUCCESS among all logs of the user and GET /api/dashboard as
\* monthly_success_rate the one among the user's logs of this month: an
\* integer in 0..100, and null when there is no such log; the count reported
\* with it is the number of these logs.
C11_SuccessRate ==
  [][/\ \A u \in 1..nextUserId :
          (RecipesGet(SessionOf(u)) /\ last'.status = 200) =>
            /\ last'.body.stats.total_cooking_count = Cardinality(LogsOf(u))
            /\ IsSuccessRate(last'.body.stats.overall_success_rate,
                             Successes(LogsOf(u)), Cardinality(LogsOf(u)))
     /\ \A u \in 1..nextUserId, now \in StatClock, zone \in Zones :
          (NotBeforeLogs(now) /\ DashboardGet(SessionOf(u), now, zone)
             /\ last'.status = 200) =>
            /\ last'.body.monthly_cooking_count = Cardinality(LogsOfMonth(u, zone, now))
            /\ IsSuccessRate(last'.body.monthly_success_rate,
                             Successes(LogsOfMonth(u, zone, now)),
                             Cardinality(LogsOfMonth(u, zone, now)))
  ]_vars

\* Two of three logs were a success: 67.
C11_Witness ==
  /\ last.op = OpRecipesGet
  /\ last.status = 200
  /\ last.body.stats.total_cooking_count = 3
  /\ last.body.stats.overall_success_rate = Number(67)

\* ------------------------------------------- fridge item fields (C12)
\* The catalog entries of a name.
Catalog(name) == {m \in ingredients_master : m.name = name}

\* What POST /api/fridge stores for the body b of user u, the supplied unit
\* taken as it is or trimmed: the supplied date, else today plus the shelf
\* life of the catalog entry of the trimmed name, else none; the supplied
\* unit, else the entry's default unit, else none; the supplied quantity, else
\* 1; and the user's id.
Resolved(row, u, b, now, zone, trimmed) ==
  /\ b.expiry_date.kind = "date" =>
       (~row.expiry_date.null /\ IsoDate(row.expiry_date.t) = b.expiry_date.day
          /\ row.expiry_date.t = IsoDate(row.expiry_date.t) * HOURS_PER_DAY)
  /\ b.expiry_date.kind # "date" =>
       IF \E m \in Catalog(Trim(b.name)) : ~m.base_shelf_life.null
       THEN \E m \in Catalog(Trim(b.name)) :
              /\ ~row.expiry_date.null
              /\ LocalDay(zone, row.expiry_date.t) = LocalDay(zone, now) + m.base_shelf_life.v
              /\ SetHoursZero(zone, row.expiry_date.t) = row.expiry_date.t
       ELSE row.expiry_date.null
  /\ row.unit =
       IF b.unit.given THEN SomeText(IF trimmed THEN Trim(b.unit.v) ELSE b.unit.v)
       ELSE IF Catalog(Trim(b.name)) # {}
         THEN (CHOOSE m \in Catalog(Trim(b.name)) : TRUE).default_unit
         ELSE NullText
  /\ row.quantity = IF b.has_quantity THEN b.quantity ELSE 1
  /\ row.user_id = u

PostResolves(trimmed) ==
  (last'.op = OpFridgePost /\ last'.status = 201) =>
    \A u \in 1..nextUserId, b \in FridgeItemBodies, now \in FridgeClock, zone \in Zones :
      FridgePost(SessionOf(u), b, now, zone) =>
        Resolved(fridge_items'[nextItemId'], u, b, now, zone, trimmed)

\* C12 as stated: POST /api/fridge stores the supplied expiry date, else today
\* plus the catalog entry's shelf life, else null; the supplied unit, else the
\* entry's default unit, else null; the supplied quantity, else 1; and the
\* session user's id.
C12_PostResolution == [][PostResolves(FALSE)]_vars

\* C12 amended: the same, where the unit stored for a supplied unit is that
\* unit without its leading and trailing white space.
C12_PostResolutionTrimmed == [][PostResolves(TRUE)]_vars

\* An egg was stored with the unit supplied as " g" and the catalog's shelf life.
C12_Witness ==
  /\ last.op = OpFridgePost
  /\ last.status = 201
  /\ \E i \in DOMAIN fridge_items :
       /\ fridge_items[i].master_id = Number(1)
       /\ fridge_items[i].unit = SomeText(<<"g">>)
       /\ ~fridge_items[i].expiry_date.null

\* ------------------------------------- master_id and custom_name (C13)
\* C13: every fridge item has exactly one of master_id and custom_name; POST
\* /api/fridge stores the master_id of the catalog entry of the trimmed name
\* and no custom_name when there is such an entry, and the trimmed name as
\* custom_name and no master_id otherwise; and no PUT changes either field.
C13_MasterOrCustom ==
  [][/\ \A i \in DOMAIN fridge_items' :
          fridge_items'[i].master_id.null # fridge_items'[i].custom_name.null
     /\ (last'.op = OpFridgePost /\ last'.status = 201) =>
          \A u \in 1..nextUserId, b \in FridgeItemBodies, now \in FridgeClock, zone \in Zones :
            FridgePost(SessionOf(u), b, now, zone) =>
              LET row == fridge_items'[nextItemId'] IN
              IF Catalog(Trim(b.name)) # {}
              THEN /\ \E m \in Catalog(Trim(b.name)) : row.master_id = Number(m.master_id)
                   /\ row.custom_name = NullText
              ELSE /\ row.master_id = Null
                   /\ row.custom_name = SomeText(Trim(b.name))
     /\ \A i \in DOMAIN fridge_items \cap DOMAIN fridge_items' :
          /\ fridge_items'[i].master_id = fridge_items[i].master_id
          /\ fridge_items'[i].custom_name = fridge_items[i].custom_name
  ]_vars

\* An item linked to a master ingredient has been edited.
C13_Witness ==
  /\ last.op = OpFridgePut
  /\ last.status = 200
  /\ \E i \in DOMAIN fridge_items :
       /\ ~fridge_items[i].master_id.null
       /\ fridge_items[i].quantity = 5

\* --------------------------------------------- cooking-log fields (C14)
\* A log row within the constraints.
ValidLog(l) ==
  /\ l.status \in {"SUCCESS", "REGRET", "FAIL"}
  /\ Trim(l.lesson_note) # <<>>
  /\ l.companion.null \/ Len(l.companion.v) <= 50

\* The row POST would store for body b were it not validated.
WouldCreate(b) ==
  [status |-> IF b.status.given THEN b.status.v ELSE "",
   lesson_note |-> IF b.lesson_note.given THEN Trim(b.lesson_note.v) ELSE <<>>,
   companion |-> IF b.companion.given THEN SomeText(Trim(b.companion.v)) ELSE NullText]

\* The row PUT would leave for body b on row l were it not validated.
WouldUpdate(l, b) ==
  [status |-> IF b.status.given THEN b.status.v ELSE l.status,
   lesson_note |-> IF b.lesson_note.given THEN Trim(b.lesson_note.v) ELSE l.lesson_note,
   companion |-> IF ~b.companion.given THEN l.companion
                 ELSE IF Trim(b.companion.v) = <<>> THEN NullText
                 ELSE SomeText(Trim(b.companion.v))]

\* C14: after every step every persisted cooking log has a status among
\* SUCCESS, REGRET and FAIL, a lesson_note that is not blank and a companion
\* that is null or of at most 50 characters; a POST of a signed-in user, or a
\* PUT of the owner on an existing log, that would store a row outside these
\* is answered 400 and changes nothing.
C14_LogsValid ==
  [][/\ \A l \in DOMAIN cooking_logs' : ValidLog(cooking_logs'[l])
     /\ (last'.op = OpLogsPost /\ (last'.status # 400 \/ db' # db)) =>
          \A s \in Sessions, b \in CreateCookingLogBodies :
            (LogsPost(s, b, Midday) /\ ~NoSessionIn(s)) => ValidLog(WouldCreate(b))
     /\ (last'.op = OpLogsPut /\ (last'.status # 400 \/ db' # db)) =>
          \A s \in Sessions, p \in IdParams(MaxLogs), b \in UpdateLogBodies :
            (/\ LogsPutStart(s, p, b)
             /\ ~NoSessionIn(s)
             /\ ParseInt(p).v \in DOMAIN cooking_logs
             /\ cooking_logs[ParseInt(p).v].user_id = ParseInt(s.id).v) =>
              ValidLog(WouldUpdate(cooking_logs[ParseInt(p).v], b))]_vars

\* A PUT has stored a companion of exactly 50 characters, sent between blanks.
C14_Witness ==
  /\ last.op = OpLogsPut
  /\ last.status = 200
  /\ \E l \in DOMAIN cooking_logs :
       /\ ~cooking_logs[l].companion.null
       /\ Len(cooking_logs[l].companion.v) = 50
       /\ cooking_logs[l].lesson_note = <<"m">>

\* ------------------------------------------- recipe creation (C15-C17)
\* The ingredient and step rows of recipe r in the tables given.
IngredientsOf(rows, r) == {x \in rows : x.recipe_id = r}

StepsOf(rows, r) == {x \in rows : x.recipe_id = r}

\* The rows of recipe r are the elements submitted in body b, one row each,
\* names and instructions without surrounding white space.
SubmittedRows(r, b) ==
  /\ Cardinality(IngredientsOf(recipe_ingredients', r)) = Len(b.ingredients)
  /\ \A i \in 1..Len(b.ingredients) :
       \E x \in IngredientsOf(recipe_ingredients', r) :
         /\ x.ri_id = i
         /\ x.name = Trim(b.ingredients[i].name)
         /\ x.amount_null = ~b.ingredients[i].amount_given
         /\ ~x.amount_null => x.amount = b.ingredients[i].amount
  /\ Cardinality(StepsOf(recipe_steps', r)) = Len(b.steps)
  /\ \A i \in 1..Len(b.steps) :
       \E x \in StepsOf(recipe_steps', r) :
         /\ x.step_id = i
         /\ x.step_order = b.steps[i].step_order
         /\ x.instruction = Trim(b.steps[i].instruction)

\* C15: every POST /api/recipes either answers 201 and adds exactly one recipe,
\* owned by the session user, with exactly the submitted ingredient and step
\* rows, or answers 400, 401 or 500 and adds no recipe, ingredient or step row.
C15_AllOrNothing ==
  [][last'.op = OpRecipesPost =>
       \/ /\ last'.status = 201
          /\ \E r \in DOMAIN recipes' \ DOMAIN recipes :
               /\ DOMAIN recipes' = DOMAIN recipes \cup {r}
               /\ \A o \in DOMAIN recipes : recipes'[o] = recipes[o]
               /\ recipe_ingredients' \ IngredientsOf(recipe_ingredients', r) = recipe_ingredients
               /\ recipe_steps' \ StepsOf(recipe_steps', r) = recipe_steps
               /\ \A s \in Sessions, b \in RecipeBodies :
                    RecipesPost(s, b) =>
                      (recipes'[r].user_id = ParseInt(s.id).v /\ SubmittedRows(r, b))
       \/ /\ last'.status \in {400, 401, 500}
          /\ UNCHANGED <<recipes, recipe_ingredients, recipe_steps>>]_vars

\* A recipe was created with two ingredient rows and two step rows.
C15_Witness ==
  /\ last.op = OpRecipesPost
  /\ last.status = 201
  /\ \E r \in DOMAIN recipes :
       /\ Cardinality(IngredientsOf(recipe_ingredients, r)) = 2
       /\ Cardinality(StepsOf(recipe_steps, r)) = 2

\* What body b lacks: the title, the ingredients, the name of an ingredient,
\* the steps, the number or the instruction of a step.
Violations(b) ==
  (IF IsBlank(b.title) THEN {ErrorOf("title", -1)} ELSE {})
  \cup (IF b.ingredients = <<>> THEN {ErrorOf("ingredients", -1)} ELSE {})
  \cup {ErrorOf("ingredient name", i - 1) :
          i \in {j \in 1..Len(b.ingredients) :
                   b.ingredients[j].is_null \/ IsBlank(b.ingredients[j].name)}}
  \cup (IF b.steps = <<>> THEN {ErrorOf("steps", -1)} ELSE {})
  \cup {ErrorOf("step_order", i - 1) :
          i \in {j \in 1..Len(b.steps) :
                   b.steps[j].is_null \/ ~b.steps[j].order_is_number}}
  \cup {ErrorOf("step instruction", i - 1) :
          i \in {j \in 1..Len(b.steps) :
                   b.steps[j].is_null \/ IsBlank(b.steps[j].instruction)}}

\* C16: after every step every persisted recipe has a title that is not
\* blank, at least one ingredient, each with a name that is not blank, and at
\* least one step, each with a step_order that is a number and an instruction
\* that is not blank; a POST /api/recipes of a signed-in user whose payload
\* lacks any of these is answered 400 without create call, the errors holding
\* one message for each thing lacking.
C16_RecipeValid ==
  [][/\ \A r \in DOMAIN recipes' :
          /\ ~IsBlank(recipes'[r].title)
          /\ IngredientsOf(recipe_ingredients', r) # {}
          /\ \A x \in IngredientsOf(recipe_ingredients', r) : ~IsBlank(x.name)
          /\ StepsOf(recipe_steps', r) # {}
          /\ \A x \in StepsOf(recipe_steps', r) : x.step_order \in Int /\ ~IsBlank(x.instruction)
     /\ last'.op = OpRecipesPost =>
          \A s \in Sessions, b \in RecipeBodies :
            (RecipesPost(s, b) /\ ~NoSessionIn(s) /\ Violations(b) # {}) =>
              /\ last'.status = 400
              /\ last'.calls = 0
              /\ UNCHANGED db
              /\ Len(last'.body.errors) = Cardinality(Violations(b))
              /\ \A v \in Violations(b) :
                   \E i \in 1..Len(last'.body.errors) : last'.body.errors[i] = v]_vars

\* C17: every persisted recipe has servings of at least 0 and every persisted
\* ingredient an amount that is null or at least 0.
C17_NonNegative ==
  /\ \A r \in DOMAIN recipes : recipes[r].servings >= 0
  /\ \A x \in recipe_ingredients : x.amount_null \/ x.amount >= 0

\* ------------------------------------------------ response shapes (C18)
\* The keys of a response body.
Keys(r) == {f.key : f \in Shape(r)}

\* C18: every response is an error response, of status 400 or more with
\* success false, a message and at most errors and error besides, or a
\* success response, of status 2xx with success true and data or a message.
C18_Envelope ==
  last.op # "none" =>
    \/ /\ last.status >= 400
       /\ Field("success", "false") \in Shape(last)
       /\ "message" \in Keys(last)
       /\ Keys(last) \subseteq {"success", "message", "errors", "error"}
    \/ /\ last.status \in 200..299
       /\ Field("success", "true") \in Shape(last)
       /\ "data" \in Keys(last) \/ "message" \in Keys(last)

\* ------------------------------------------------ caught exceptions (C19)
\* The response r ends a request of the extraction in which an outbound call
\* threw: the transcript fetch, the page fetch (a response that is not OK is
\* thrown as well), or the model call and the parsing of its answer.
ExtractThrew(r) ==
  /\ r.op = OpExtract
  /\ \/ r.body.job.acquired \in {"throws", "not_ok"}
     \/ r.body.job.llm \in {"throws", "empty", "unparsable", "null"}

\* The body of r holds a fixed message and the text of the caught error.
GenericAndRaw(r) ==
  /\ \E f \in Shape(r) : f.key \in {"message", "error"} /\ f.is = "text"
  /\ \E f \in Shape(r) : f.is = "error text"

\* C19: a response to a request in which the session lookup, the parsing of
\* the body, a database call or an outbound call threw has status 500 and a
\* body holding a generic message and the text of the error.
C19_Caught ==
  last.op # "none" =>
    /\ ExtractThrew(last) => (last.status = 500 /\ GenericAndRaw(last))
    /\ (last.op # OpExtract /\ last.status = 500) => GenericAndRaw(last)

\* ------------------------------------------------- partial updates (C20)
\* Every table but the one named is left as it was.
OnlyItemsChange ==
  UNCHANGED <<users, nextUserId, user_settings, nextItemId, cooking_logs, nextLogId, recipes,
              nextRecipeId, recipe_ingredients, recipe_steps>>

OnlyLogsChange ==
  UNCHANGED <<users, nextUserId, user_settings, fridge_items, nextItemId, nextLogId, recipes,
              nextRecipeId, recipe_ingredients, recipe_steps>>

\* The stored form of a text sent for unit or companion: without surrounding
\* white space, null when nothing is left.
Stored(text) == IF Trim(text) = <<>> THEN NullText ELSE SomeText(Trim(text))

\* Item `new` is item `old` with the fields of body b and nothing else changed.
ItemEdited(old, new, b) ==
  /\ new.quantity = IF b.has_quantity THEN b.quantity ELSE old.quantity
  /\ new.unit = IF b.unit.given THEN Stored(b.unit.v) ELSE old.unit
  /\ IF b.expiry_date.kind = "date"
     THEN ~new.expiry_date.null /\ IsoDate(new.expiry_date.t) = b.expiry_date.day
     ELSE new.expiry_date = old.expiry_date
  /\ new.user_id = old.user_id
  /\ new.master_id = old.master_id
  /\ new.custom_name = old.custom_name

\* Log `new` is log `old` with the fields of body b and nothing else changed.
LogEdited(old, new, b) ==
  /\ new.status = IF b.status.given THEN b.status.v ELSE old.status
  /\ new.lesson_note = IF b.lesson_note.given THEN Trim(b.lesson_note.v) ELSE old.lesson_note
  /\ new.companion = IF b.companion.given THEN Stored(b.companion.v) ELSE old.companion
  /\ new.user_id = old.user_id
  /\ new.recipe_id = old.recipe_id
  /\ new.cooked_at = old.cooked_at

\* C20: a PUT /api/fridge/{item_id} answered 200 has set the quantity, unit
\* and expiry_date that its body holds on the addressed item and left the
\* item's other fields, user_id, master_id, custom_name, every other item and
\* every other table as they were; likewise a PUT /api/cooking-logs/{log_id}
\* answered 200 for status, lesson_note and companion, with user_id, recipe_id
\* and cooked_at.
C20_PartialUpdate ==
  [][/\ (last'.op = OpFridgePut /\ last'.status = 200) =>
          \A q \in pending :
            FridgePutCommit(q) =>
              /\ OnlyItemsChange
              /\ DOMAIN fridge_items' = DOMAIN fridge_items
              /\ \A i \in DOMAIN fridge_items \ {q.id} : fridge_items'[i] = fridge_items[i]
              /\ ItemEdited(fridge_items[q.id], fridge_items'[q.id], q.data)
     /\ (last'.op = OpLogsPut /\ last'.status = 200) =>
          \A q \in pending :
            LogsPutCommit(q) =>
              /\ OnlyLogsChange
              /\ DOMAIN cooking_logs' = DOMAIN cooking_logs
              /\ \A l \in DOMAIN cooking_logs \ {q.id} : cooking_logs'[l] = cooking_logs[l]
              /\ LogEdited(cooking_logs[q.id], cooking_logs'[q.id], q.data)]_vars

\* An edit of the unit alone was applied to an item whose quantity had been
\* edited before, and an edit of the companion alone to a log whose status had.
C20_Witness ==
  /\ last.op \in {OpFridgePut, OpLogsPut}
  /\ last.status = 200
  /\ \E i \in DOMAIN fridge_items :
       fridge_items[i].quantity = 5 /\ fridge_items[i].unit = SomeText(<<"k">>)
  /\ \E l \in DOMAIN cooking_logs :
       /\ cooking_logs[l].status = "FAIL"
       /\ cooking_logs[l].lesson_note = <<"m">>
       /\ cooking_logs[l].companion = SomeText(<<"c">>)

\* ----------------------------------------------- sign-in and signup page
\* A browser session is a record of pending: user is token.sub, id numbers the
\* sessions in the order they were created, and data holds the account it was
\* created for, the token's isComplete and the state of the signup page's hook
\* (useSignup): where handleSubmit stands, isLoading, whether error is set, and
\* what the running or last handleSubmit call did (the request sent, the
\* session update processed, router.push called).
OpBrowser == "browser session"

MaxSessions == 2

Providers == {"google", "kakao"}

SocialIds == {IntToStr(1), IntToStr(2)}

NoAccount == [provider |-> "none", providerAccountId |-> <<>>]

Accounts == {NoAccount} \cup [provider : Providers, providerAccountId : SocialIds]

Browsers == {q \in pending : q.op = OpBrowser}

\* prisma.users.findUnique({ where: { social_id: socialId } })
FindBySocialId(socialId) == {u \in DOMAIN users : users[u].social_id = socialId}

HookIdle ==
  [pc |-> "idle", isLoading |-> FALSE, error |-> FALSE, sent |-> FALSE,
   updated |-> FALSE, pushed |-> FALSE]

\* The browser session the jwt callback starts from the user object signIn
\* filled in: token.sub = user.id, token.isComplete = user.isComplete.
NewBrowser(account, userId, isComplete) ==
  [kind |-> "user", op |-> OpBrowser, user |-> userId, id |-> Cardinality(Browsers) + 1,
   data |-> [provider |-> account.provider, socialId |-> account.providerAccountId,
             isComplete |-> isComplete, hook |-> HookIdle]]

\* callbacks.signIn followed by callbacks.jwt: no account refuses the sign-in;
\* an unknown social id creates the user with the default settings row; the
\* session is that of the users row found or created.
SignIn(account) ==
  /\ Cardinality(Browsers) < MaxSessions
  /\ IF account = NoAccount THEN UNCHANGED vars
     ELSE LET found == FindBySocialId(account.providerAccountId) IN
       IF found = {} THEN
         /\ nextUserId < MaxUsers
         /\ nextUserId' = nextUserId + 1
         /\ users' = Put(users, nextUserId + 1,
                         NewUser(account.provider, account.providerAccountId))
         /\ user_settings' = Put(user_settings, nextUserId + 1, [alert_timer |-> TRUE])
         /\ pending' = pending \cup {NewBrowser(account, nextUserId + 1, FALSE)}
         /\ UNCHANGED <<fridge_items, nextItemId, cooking_logs, nextLogId, recipes,
                        nextRecipeId, recipe_ingredients, recipe_steps, last>>
       ELSE
         /\ pending' = pending \cup
              {NewBrowser(account, CHOOSE u \in found : TRUE,
                          users[CHOOSE u \in found : TRUE].terms_agreements)}
         /\ UNCHANGED <<db, last>>

\* The record of browser session q after a change.
WithToken(q, isComplete) == [q EXCEPT !.data.isComplete = isComplete]

WithHook(q, hook) == [q EXCEPT !.data.hook = hook]

\* A jwt callback that copies whatever session.isComplete holds.
JwtUpdateCopy(token, isComplete) == isComplete

\* callbacks.jwt with trigger 'update': only a truthy session.isComplete is
\* copied into the token.
JwtUpdate(token, isComplete) == IF isComplete THEN TRUE ELSE token

\* A client calls update(session) of useSession on its own.
SessionUpdate(q, isComplete) ==
  /\ q \in Browsers
  /\ q.data.hook.pc \in {"idle", "finished"}
  /\ pending' = (pending \ {q}) \cup {WithToken(q, JwtUpdate(q.data.isComplete, isComplete))}
  /\ UNCHANGED <<db, last>>

\* The signup form: the nickname typed and the two required check boxes.
Forms == [nickname : {<<>>, <<" ">>, <<"a">>}, termsService : BOOLEAN, termsPrivacy : BOOLEAN]

\* handleSubmit up to its fetch: a blank nickname or an unchecked term sets
\* the error and returns; otherwise isLoading is set, the error cleared and
\* the request sent. The button is disabled while isLoading.
HandleSubmit(q, form) ==
  /\ q \in Browsers
  /\ q.data.hook.pc \in {"idle", "finished"}
  /\ ~q.data.hook.isLoading
  /\ pending' = (pending \ {q}) \cup
       {WithHook(q, IF Trim(form.nickname) = <<>> \/ ~form.termsService \/ ~form.termsPrivacy
                    THEN [HookIdle EXCEPT !.pc = "finished", !.error = TRUE]
                    ELSE [HookIdle EXCEPT !.pc = "fetch", !.isLoading = TRUE, !.sent = TRUE])}
  /\ UNCHANGED <<db, last>>

Fetching == {q \in Browsers : q.data.hook.pc = "fetch"}

\* The body handleSubmit sends: the trimmed nickname and terms_agreements: true.
SubmitBody == [nickname |-> "lucy", terms_agreements |-> "true"]

\* The server handles the request of handleSubmit: it arrives with the
\* browser's session, or with none once the session cookie has expired.
SignupServe(q, expired) ==
  /\ q \in Fetching
  /\ SignupPost(IF expired THEN SessNull ELSE SessionOf(q.user), SubmitBody)

\* A handleSubmit whose catch is not followed by finally.
HookFailedNoFinally ==
  [HookIdle EXCEPT !.pc = "finished", !.error = TRUE, !.sent = TRUE, !.isLoading = TRUE]

\* catch and finally of handleSubmit.
HookFailed == [HookIdle EXCEPT !.pc = "finished", !.error = TRUE, !.sent = TRUE]

\* handleSubmit reads the response: res.ok goes on to update(), anything else
\* throws into catch.
SignupResponse(q) ==
  /\ q \in Fetching
  /\ last.op = OpSignupPost
  /\ last' = NoResponse
  /\ pending' = (pending \ {q}) \cup
       {WithHook(q, IF last.status = 200
                    THEN [q.data.hook EXCEPT !.pc = "update"]
                    ELSE HookFailed)}
  /\ UNCHANGED db

\* fetch rejects (no response arrives).
FetchRejects(q) ==
  /\ q \in Fetching
  /\ Ready
  /\ pending' = (pending \ {q}) \cup {WithHook(q, HookFailed)}
  /\ UNCHANGED <<db, last>>

\* await update({ isComplete: true }): the jwt callback processes the update,
\* or the call rejects and handleSubmit ends in catch.
HookUpdate(q, resolves) ==
  /\ q \in Browsers
  /\ q.data.hook.pc = "update"
  /\ pending' = (pending \ {q}) \cup
       {IF resolves
        THEN WithHook(WithToken(q, JwtUpdate(q.data.isComplete, TRUE)),
                      [q.data.hook EXCEPT !.pc = "push", !.updated = TRUE])
        ELSE WithHook(q, HookFailed)}
  /\ UNCHANGED <<db, last>>

\* router.push('/') and finally.
HookPush(q) ==
  /\ q \in Browsers
  /\ q.data.hook.pc = "push"
  /\ pending' = (pending \ {q}) \cup
       {WithHook(q, [q.data.hook EXCEPT !.pc = "finished", !.pushed = TRUE,
                                        !.isLoading = FALSE])}
  /\ UNCHANGED <<db, last>>

\* Bodies a client can post to the signup route on its own.
DirectSignupBodies == [nickname : {"", "lucy"}, terms_agreements : {"absent", "false", "true"}]

BrowserSessions == {SessNull} \cup {SessionOf(q.user) : q \in Browsers}

NextAuth ==
  \/ Fetching = {} /\ ReadResponse
  \/ \E a \in Accounts : Ready /\ SignIn(a)
  \/ \E q \in pending, v \in BOOLEAN : Ready /\ SessionUpdate(q, v)
  \/ \E q \in pending, f \in Forms : Ready /\ Fetching = {} /\ HandleSubmit(q, f)
  \/ \E q \in pending, e \in BOOLEAN : Ready /\ SignupServe(q, e)
  \/ \E q \in pending : SignupResponse(q)
  \/ \E q \in pending : FetchRejects(q)
  \/ \E q \in pending, r \in BOOLEAN : Ready /\ HookUpdate(q, r)
  \/ \E q \in pending : Ready /\ HookPush(q)
  \/ \E s \in BrowserSessions, b \in DirectSignupBodies :
       Ready /\ Fetching = {} /\ SignupPost(s, b)

SpecAuth == Init /\ [][NextAuth]_vars

\* The browser session numbered n, in this state and in the next one.
BrowserNo(n) == CHOOSE q \in Browsers : q.id = n

BrowserNoNext(n) == CHOOSE q \in {x \in pending' : x.op = OpBrowser} : q.id = n

BrowserIds == {q.id : q \in Browsers}

\* C21: once handleSubmit has had its 200 from POST /api/auth/signup and its
\* session update processed, the session's isComplete is true; a session's
\* isComplete, once true, is true in every later state of the session; and a
\* signup response other than 200, served or read, leaves every session's
\* isComplete as it was.
C21_SignupCompletes ==
  [][/\ \A n \in BrowserIds :
          /\ BrowserNoNext(n).data.hook.updated => BrowserNoNext(n).data.isComplete
          /\ BrowserNo(n).data.isComplete => BrowserNoNext(n).data.isComplete
     /\ (\/ last'.op = OpSignupPost /\ last'.status # 200
         \/ last.op = OpSignupPost /\ last.status # 200)
        => \A n \in BrowserIds :
             BrowserNoNext(n).data.isComplete = BrowserNo(n).data.isComplete]_vars

\* A session whose handleSubmit went through to the end, and another whose
\* handleSubmit ended on a failed response with isComplete still false.
C21_Witness ==
  /\ \E q \in Browsers : /\ q.data.hook.pc = "finished"
                         /\ q.data.hook.updated
                         /\ q.data.isComplete
  /\ \E q \in Browsers : /\ q.data.hook.pc = "finished"
                         /\ q.data.hook.sent
                         /\ q.data.hook.error
                         /\ ~q.data.isComplete

\* C27: sign-in resolves identities injectively and idempotently: two sessions
\* are of the same users row only if they were signed in with the same provider
\* and the same social id, and two sign-ins with the same provider and social
\* id are of the same users row; every users row has its settings row.
C27_Injective ==
  /\ \A q1, q2 \in Browsers :
       (q1.user = q2.user) <=> (/\ q1.data.provider = q2.data.provider
                                /\ q1.data.socialId = q2.data.socialId)
  /\ DOMAIN users = DOMAIN user_settings

\* The parts of C27 about what a sign-in creates: a sign-in with a social id
\* no row has adds one users row (terms_agreements false) and its settings
\* row, and a sign-in with a social id some row has adds nothing and yields
\* the id of that row.
C27_Idempotent ==
  [][(Cardinality({x \in pending' : x.op = OpBrowser}) > Cardinality(Browsers)) =>
       LET q == CHOOSE x \in pending' : x \notin pending IN
       IF FindBySocialId(q.data.socialId) = {}
       THEN /\ DOMAIN users' = DOMAIN users \cup {q.user}
            /\ q.user \notin DOMAIN users
            /\ ~users'[q.user].terms_agreements
            /\ DOMAIN user_settings' = DOMAIN user_settings \cup {q.user}
            /\ ~q.data.isComplete
       ELSE /\ UNCHANGED db
            /\ q.user \in FindBySocialId(q.data.socialId)]_vars

\* C29: a session whose isComplete is true belongs to a user whose stored
\* terms_agreements is true, and a user whose terms_agreed_at is set has
\* terms_agreements true.
C29_CompleteAgreed ==
  /\ \A q \in Browsers :
       q.data.isComplete => /\ q.user \in DOMAIN users
                            /\ users[q.user].terms_agreements
  /\ \A u \in DOMAIN users : users[u].terms_agreed_at => users[u].terms_agreements

\* The second half of C29 alone.
C29_AgreedAt ==
  \A u \in DOMAIN users : users[u].terms_agreed_at => users[u].terms_agreements

\* The first half of C29 alone.
C29_SessionAgreed ==
  \A q \in Browsers :
    q.data.isComplete => /\ q.user \in DOMAIN users
                         /\ users[q.user].terms_agreements

\* The form fails the validation of handleSubmit.
FormRejected(f) == Trim(f.nickname) = <<>> \/ ~f.termsService \/ ~f.termsPrivacy

\* C30: handleSubmit goes validate -> POST /api/auth/signup -> session update
\* -> navigate: with a blank nickname or an unchecked required term no request
\* is sent; the session update is started only on a 200 and the navigation is
\* made only after the update completed; a call that ends any other way has
\* the error set and has not navigated; a finished call has isLoading false.
C30_HookOrder ==
  [][/\ \A n \in BrowserIds :
          LET h == BrowserNo(n).data.hook
              g == BrowserNoNext(n).data.hook IN
          /\ (h.pc # "fetch" /\ g.pc # h.pc /\ g.pc \in {"fetch", "finished"} /\ h.pc \in {"idle", "finished"})
             => \A f \in Forms :
                  (HandleSubmit(BrowserNo(n), f) /\ FormRejected(f))
                  => ~g.sent /\ g.error /\ g.pc = "finished" /\ UNCHANGED <<db, last>>
          /\ (g.pc = "update" /\ h.pc # "update")
             => h.pc = "fetch" /\ last.op = OpSignupPost /\ last.status = 200
          /\ g.updated => g.sent
          /\ g.pushed => g.updated /\ (h.pushed \/ h.updated)
          /\ g.pc = "finished" => /\ ~g.isLoading
                                  /\ g.pushed # g.error
                                  /\ g.pushed => g.sent
          /\ g.pc \in {"fetch", "update", "push"} => g.isLoading /\ g.sent /\ ~g.error]_vars

\* A handleSubmit that went through to the navigation, and one that ended
\* with the error set after its request was sent.
C30_Witness ==
  /\ \E q \in Browsers : q.data.hook.pc = "finished" /\ q.data.hook.pushed
  /\ \E q \in Browsers : q.data.hook.pc = "finished" /\ q.data.hook.sent /\ q.data.hook.error

\* ------------------------------------------------ expiring items
\* A refrigerator of up to three items of two users: without expiry date, and
\* with the dates of day 1, 3, 10 and 12, read on day 2 and day 3.
MaxExpiring == 3

ExpiringRows ==
  {NewFridgeItem(u, [name |-> <<"e">>, has_quantity |-> FALSE, quantity |-> 0,
                     unit |-> NoText, expiry_date |-> e], Midday, UTC) :
     u \in 1..2, e \in {NoExpiry, ExpiryOn(1), ExpiryOn(3), ExpiryOn(10), ExpiryOn(12)}}

InitExpiring ==
  /\ users = [u \in 1..2 |-> Member(u)]
  /\ nextUserId = 2
  /\ user_settings = [u \in 1..2 |-> [alert_timer |-> TRUE]]
  /\ \E n \in 0..MaxExpiring : fridge_items \in [1..n -> ExpiringRows]
  /\ nextItemId = Len(fridge_items)
  /\ cooking_logs = <<>>
  /\ nextLogId = 0
  /\ recipes = <<>>
  /\ nextRecipeId = 0
  /\ recipe_ingredients = {}
  /\ recipe_steps = {}
  /\ pending = {}
  /\ last = NoResponse

ExpiringClock == {2 * HOURS_PER_DAY + 12, 3 * HOURS_PER_DAY + 1}

NextExpiring ==
  \/ ReadResponse
  \/ \E s \in Sessions, now \in ExpiringClock, zone \in Zones :
       Ready /\ DashboardGet(s, now, zone)

SpecExpiring == InitExpiring /\ [][NextExpiring]_vars

\* The items of user u whose expiry date is a day from today to today + 7,
\* today being the calendar day of the request in the server's zone.
ExpiringOf(u, zone, now) ==
  {j \in DOMAIN fridge_items :
     /\ fridge_items[j].user_id = u
     /\ ~fridge_items[j].expiry_date.null
     /\ LocalDay(zone, now) <= IsoDate(fridge_items[j].expiry_date.t)
     /\ IsoDate(fridge_items[j].expiry_date.t) <= LocalDay(zone, now) + EXPIRY_WINDOW_DAYS}

\* C22: expiring_items of GET /api/dashboard lists exactly the session user's
\* items whose expiry date lies between today and today + 7 days, in the order
\* of their expiry dates; items without expiry date, items expiring later and
\* other users' items are not listed.
C22_ExpiringExact ==
  [][(last'.op = OpDashboardGet /\ last'.status = 200) =>
       \A s \in Sessions, now \in ExpiringClock, zone \in Zones :
         DashboardGet(s, now, zone) =>
           /\ {x.item_id : x \in last'.body.expiring_items}
                = ExpiringOf(ParseInt(s.id).v, zone, now)
           /\ \A x, y \in last'.body.expiring_items :
                x.rank < y.rank => x.expiry_date.v <= y.expiry_date.v]_vars

\* What holds of the list: the session user's items with an expiry date not
\* after the instant seven days after the server's local midnight, ordered.
C22_NotAfterWindow ==
  [][(last'.op = OpDashboardGet /\ last'.status = 200) =>
       \A s \in Sessions, now \in ExpiringClock, zone \in Zones :
         DashboardGet(s, now, zone) =>
           /\ {x.item_id : x \in last'.body.expiring_items}
                = {j \in DOMAIN fridge_items :
                     /\ fridge_items[j].user_id = ParseInt(s.id).v
                     /\ ~fridge_items[j].expiry_date.null
                     /\ fridge_items[j].expiry_date.t
                          <= MidnightOf(zone, LocalDay(zone, now) + EXPIRY_WINDOW_DAYS)}
           /\ \A x, y \in last'.body.expiring_items :
                /\ x.rank < y.rank => x.expiry_date.v <= y.expiry_date.v
                /\ x.expiry_date.v < y.expiry_date.v => x.rank < y.rank]_vars

\* The request in flight that a PUT of session s on record p with body b adds.
PutInFlight(s, op, p, b) ==
  [kind |-> s.kind, op |-> op, user |-> ParseInt(s.id).v, id |-> ParseInt(p).v, data |-> b]

\* C23: PUT /api/fridge/{item_id} and PUT /api/cooking-logs/{log_id} validate
\* the body before the existence/ownership check: a signed-in request with an
\* invalid body is answered 400 without the record having been looked up,
\* whoever owns the record.
C23_ValidateFirst ==
  [][/\ (last'.op = OpFridgePut /\ last.op = "none") =>
          \A s \in Sessions, p \in IdParams(MaxItems), b \in FridgeEditBodies :
            (FridgePutStart(s, p, b) /\ ~NoSessionIn(s) /\ FridgePutErrors(b))
            => last'.status = 400 /\ last'.calls = 0
     /\ (last'.op = OpLogsPut /\ last.op = "none") =>
          \A s \in Sessions, p \in IdParams(MaxLogs), b \in LogEditBodies :
            (LogsPutStart(s, p, b) /\ ~NoSessionIn(s) /\ LogsPutErrors(b))
            => last'.status = 400 /\ last'.calls = 0]_vars

\* The answer to a PUT when the steps run in the order identity, path
\* parameter, existence, ownership, body: 0 stands for the update going ahead.
OwnershipFirst(s, p, rows, invalid) ==
  IF NoSessionIn(s) THEN 401
  ELSE IF ParseInt(p).nan \/ ParseInt(p).v <= 0 THEN 400
  ELSE IF ParseInt(p).v \notin DOMAIN rows THEN 404
  ELSE IF rows[ParseInt(p).v].user_id # ParseInt(s.id).v THEN 403
  ELSE IF invalid THEN 400
  ELSE 0

\* C23 (amended): the two PUT handlers run identity (401), path parameter
\* (400), existence (404), ownership (403), body validation (400), update, in
\* this order: an invalid body is answered 400 only to the owner of an
\* existing record, after the record was looked up, and 404/403 otherwise;
\* the update is started only when all checks passed, and no check writes.
C23_OwnershipFirst ==
  [][/\ ((last'.op = OpFridgePut /\ last.op = "none") \/ pending' # pending) =>
          \A s \in Sessions, p \in IdParams(MaxItems), b \in FridgeEditBodies :
            FridgePutStart(s, p, b) =>
              LET e == OwnershipFirst(s, p, fridge_items, FridgePutErrors(b)) IN
              /\ e # 0 => /\ last'.status = e
                          /\ last'.calls = (IF e \in {404, 403} \/ (e = 400 /\ ~BadIdParam(ParseInt(p)))
                                            THEN 1 ELSE 0)
                          /\ pending' = pending
              /\ e = 0 => pending' = pending \cup {PutInFlight(s, OpFridgePut, p, b)}
              /\ UNCHANGED db
     /\ ((last'.op = OpLogsPut /\ last.op = "none") \/ pending' # pending) =>
          \A s \in Sessions, p \in IdParams(MaxLogs), b \in LogEditBodies :
            LogsPutStart(s, p, b) =>
              LET e == OwnershipFirst(s, p, cooking_logs, LogsPutErrors(b)) IN
              /\ e # 0 => /\ last'.status = e
                          /\ last'.calls = (IF e \in {404, 403} \/ (e = 400 /\ ~BadIdParam(ParseInt(p)))
                                            THEN 1 ELSE 0)
                          /\ pending' = pending
              /\ e = 0 => pending' = pending \cup {PutInFlight(s, OpLogsPut, p, b)}
              /\ UNCHANGED db
     /\ \A q \in pending :
          (q.op = OpFridgePut => ~FridgePutErrors(q.data))
          /\ (q.op = OpLogsPut => ~LogsPutErrors(q.data))]_vars

\* A 400 that was sent after the record had been looked up: the body of the
\* owner's request failed the validation.
C23_Witness ==
  /\ last.op \in {OpFridgePut, OpLogsPut}
  /\ last.status = 400
  /\ last.calls = 1

\* ------------------------------------------------ long extracted texts
\* Transcripts and pages whose text is as long as the limit, one character
\* longer, and longer only before white space is collapsed.
LongTexts ==
  {Repeat("a", TEXT_LIMIT), Repeat("a", TEXT_LIMIT) \o <<"b">>,
   <<" ">> \o Repeat("a", TEXT_LIMIT - 1) \o <<" ", " ", "b">>}

LongTranscriptOutcomes ==
  {[throws |-> TRUE, segs |-> <<>>]}
    \cup {[throws |-> FALSE, segs |-> <<t>>] : t \in LongTexts}
    \cup {[throws |-> FALSE, segs |-> <<Repeat("a", TEXT_LIMIT - 1), <<"b">> >>]}

LongPageOutcomes ==
  {[kind |-> "throws", page |-> NoPage]}
    \cup {[kind |-> "ok", page |-> [title |-> <<"T">>, h1 |-> <<>>, body |-> t]] : t \in LongTexts}

VideoOrPageUrls == {url \in ExtractUrls : ~UrlMissing(url)}

NextLongText ==
  \/ ReadResponse
  \/ \E url \in VideoOrPageUrls, key \in BOOLEAN : Ready /\ ExtractStart(url, key)
  \/ \E q \in pending, o \in LongTranscriptOutcomes : Ready /\ TranscriptReturn(q, o)
  \/ \E q \in pending, o \in LongPageOutcomes : Ready /\ PageReturn(q, o)
  \/ \E q \in pending, o \in LlmOutcomes : Ready /\ LlmReturn(q, o)

SpecLongText == Init /\ [][NextLongText]_vars

\* The requests whose text has been submitted to the language model.
Submitted == {q \in pending : q.op = OpExtract /\ q.data.pc = "llm"}

\* C25: the text submitted to the language model is never longer than the
\* limit of 30,000 characters, whether it came from a video transcript or
\* from a page.
C25_WithinLimit == \A q \in Submitted : Len(q.data.extractedText) <= TEXT_LIMIT

\* The page path alone: the submitted text is the collapsed and trimmed text
\* of the page when that is within the limit, and its prefix of 30,000
\* characters otherwise.
C25_PagePrefix ==
  \A q \in Submitted :
    ~IsVideoUrl(q.data.url) =>
      LET text == Trim(CollapseSpaces(q.data.page.body)) IN
      /\ Len(q.data.extractedText) <= TEXT_LIMIT
      /\ q.data.extractedText = SubSeq(text, 1, IF Len(text) > TEXT_LIMIT THEN TEXT_LIMIT
                                                ELSE Len(text))

\* C28: whatever recipe POST /api/recipes stored and whatever servings
\* parameter is sent, the detail is computed with base servings of at least 1
\* (no division by zero), and every scaled amount that is not null is a finite
\* number that is not negative.
C28_FiniteAmounts ==
  (last.op = OpRecipeGet /\ last.status = 200) =>
    /\ last.body.base_servings >= 1
    /\ \A x \in last.body.ingredients :
         x.amount.kind = "null" \/ (x.amount.kind = "number" /\ x.amount.v >= 0)

\* The same for the recipes whose stored servings are at least 1.
C28_FromPositiveBase ==
  (last.op = OpRecipeGet /\ last.status = 200 /\ last.body.base_servings >= 1) =>
    \A x \in last.body.ingredients :
      x.amount.kind = "null" \/ (x.amount.kind = "number" /\ x.amount.v >= 0)

\* ------------------------------------------------ reads of one user
\* Two users write cooking logs of user 1's recipe and fridge items; every
\* list, the recipe detail and the dashboard are read in between.
NextIsolation ==
  \/ ReadResponse
  \/ \E s \in Sessions, b \in LogsPostBodies : Idle /\ LogsPost(s, b, Midday)
  \/ \E s \in Sessions, b \in FridgePostBodies : Idle /\ FridgePost(s, b, Midday, UTC)
  \/ \E s \in Sessions : Idle /\ RecipesGet(s)
  \/ \E s \in Sessions, p \in IdParams(MaxRecipes) : Idle /\ RecipeGet(s, p, NoServings)
  \/ \E s \in Sessions : Idle /\ LogsGet(s)
  \/ \E s \in Sessions : Idle /\ FridgeGet(s, Midday, UTC)
  \/ \E s \in Sessions : Idle /\ DashboardGet(s, Midday, UTC)

SpecIsolation == InitLogs /\ [][NextIsolation]_vars

\* The rows of other users leave the lists of user u as they are: the fridge
\* list and the dashboard's expiring items hold items of u only, and the
\* statistics count logs of u only.
OwnItemsOnly ==
  /\ (last'.op = OpFridgeGet /\ last'.status = 200) =>
       \A s \in Sessions : FridgeGet(s, Midday, UTC) =>
         \A x \in last'.body : fridge_items[x.item_id].user_id = ParseInt(s.id).v
  /\ (last'.op = OpDashboardGet /\ last'.status = 200) =>
       \A s \in Sessions : DashboardGet(s, Midday, UTC) =>
         /\ \A x \in last'.body.expiring_items :
              fridge_items[x.item_id].user_id = ParseInt(s.id).v
         /\ last'.body.monthly_cooking_count
              <= Cardinality({l \in DOMAIN cooking_logs :
                                cooking_logs[l].user_id = ParseInt(s.id).v})
  /\ (last'.op = OpRecipesGet /\ last'.status = 200) =>
       \A s \in Sessions : RecipesGet(s) =>
         /\ \A r \in last'.discloses : recipes[r].user_id = ParseInt(s.id).v
         /\ last'.body.stats.total_cooking_count
              = Cardinality({l \in DOMAIN cooking_logs :
                               cooking_logs[l].user_id = ParseInt(s.id).v})

\* C26: what a user reads is made of that user's rows alone, whatever other
\* users have requested: in particular the latest_log of each recipe in
\* GET /api/recipes is a log the reading user wrote.
C26_ReadIsolation ==
  [][/\ OwnItemsOnly
     /\ (last'.op = OpRecipesGet /\ last'.status = 200) =>
          \A s \in Sessions : RecipesGet(s) =>
            \A r \in DOMAIN last'.body.latest_log :
              last'.body.latest_log[r] # 0
              => cooking_logs[last'.body.latest_log[r]].user_id = ParseInt(s.id).v]_vars

\* The part of C26 that does not concern latest_log.
C26_OwnItemsOnly == [][OwnItemsOnly]_vars

\* ------------------------------------------ the dashboard's four reads
\* GET /api/dashboard step by step: the request in flight is a record of
\* pending whose data holds the clock and zone of the request, the reads of
\* Promise.all that have completed, and their results.
Reads == {"thisMonthLogs", "prevMonthCount", "expiringRaw", "latestLesson"}

\* findMany of cooking_logs, select status: the statuses are kept as the
\* number of rows and the number of SUCCESS among them.
ThisMonthLogsRead(userId, now, zone) ==
  LET logs == {l \in DOMAIN cooking_logs :
                 /\ cooking_logs[l].user_id = userId
                 /\ cooking_logs[l].cooked_at >= MonthStart(zone, now)
                 /\ cooking_logs[l].cooked_at
                      < AddDays(zone, MidnightOf(zone, LocalDay(zone, now)), 1)}
  IN [total |-> Cardinality(logs),
      success |-> Cardinality({l \in logs : cooking_logs[l].status = "SUCCESS"})]

\* count of cooking_logs of the previous month
PrevMonthCountRead(userId, now, zone) ==
  Cardinality({l \in DOMAIN cooking_logs :
                 /\ cooking_logs[l].user_id = userId
                 /\ cooking_logs[l].cooked_at >= PrevMonthStart(zone, now)
                 /\ cooking_logs[l].cooked_at < MonthStart(zone, now)})

\* findMany of fridge_items with expiry_date lte expiryThreshold
ExpiringRawRead(userId, now, zone) ==
  {[item_id |-> j, expiry_date |-> fridge_items[j].expiry_date] :
     j \in {i \in DOMAIN fridge_items :
              /\ fridge_items[i].user_id = userId
              /\ ~fridge_items[i].expiry_date.null
              /\ fridge_items[i].expiry_date.t
                   <= AddDays(zone, MidnightOf(zone, LocalDay(zone, now)), EXPIRY_WINDOW_DAYS)}}

\* findFirst of the user's logs, latest first: the logs it may return.
LatestLessonRead(userId) ==
  {l \in DOMAIN cooking_logs :
     /\ cooking_logs[l].user_id = userId
     /\ \A k \in DOMAIN cooking_logs :
          cooking_logs[k].user_id = userId => cooking_logs[k].cooked_at <= cooking_logs[l].cooked_at}

NoReads ==
  [thisMonthLogs |-> [total |-> 0, success |-> 0], prevMonthCount |-> 0, expiringRaw |-> {},
   latestLesson |-> {}]

\* The result of read k of request q against the tables as they are.
ReadResult(q, k) ==
  IF k = "thisMonthLogs" THEN ThisMonthLogsRead(q.user, q.data.now, q.data.zone)
  ELSE IF k = "prevMonthCount" THEN PrevMonthCountRead(q.user, q.data.now, q.data.zone)
  ELSE IF k = "expiringRaw" THEN ExpiringRawRead(q.user, q.data.now, q.data.zone)
  ELSE LatestLessonRead(q.user)

\* The session is resolved, the dates are computed and the four reads issued.
DashboardStart(s, now, zone) ==
  /\ IF NoSessionIn(s) THEN
       /\ last' = Response(s, OpDashboardGet, 401, 0)
       /\ UNCHANGED pending
     ELSE
       /\ Cardinality(pending) < MaxInflight
       /\ pending' = pending \cup
            {[kind |-> s.kind, op |-> OpDashboardGet, user |-> ParseInt(s.id).v, id |-> 0,
              data |-> [now |-> now, zone |-> zone, done |-> {}, results |-> NoReads]]}
       /\ UNCHANGED last
  /\ UNCHANGED db

\* One of the reads completes, in any order; a read that throws rejects
\* Promise.all, and the catch block answers.
DashboardRead(q, k, throws) ==
  /\ q \in pending
  /\ q.op = OpDashboardGet
  /\ k \in Reads \ q.data.done
  /\ IF throws THEN
       /\ last' = Response(q, OpDashboardGet, 500, 4)
       /\ pending' = pending \ {q}
     ELSE
       /\ pending' = (pending \ {q}) \cup
            {[q EXCEPT !.data.done = @ \cup {k}, !.data.results[k] = ReadResult(q, k)]}
       /\ UNCHANGED last
  /\ UNCHANGED db

\* A Promise.all that resolves with the first read.
SomeReadsDone(q) == q.data.done # {}

\* Promise.all resolves when every read has completed.
AllReadsDone(q) == q.data.done = Reads

\* Steps 4 to 6 of the handler: the response is computed from the results.
DashboardBody(q) ==
  LET r == q.data.results
      today == MidnightOf(q.data.zone, LocalDay(q.data.zone, q.data.now))
  IN [monthly_cooking_count |-> r.thisMonthLogs.total,
      prev_month_cooking_count |-> r.prevMonthCount,
      monthly_success_rate |->
        IF r.thisMonthLogs.total > 0
        THEN Number(MathRound(r.thisMonthLogs.success * 100, r.thisMonthLogs.total))
        ELSE Null,
      expiring_items |->
        {[item_id |-> x.item_id,
          expiry_date |-> Number(IsoDate(x.expiry_date.t)),
          rank |-> Cardinality({y \in r.expiringRaw : y.expiry_date.t < x.expiry_date.t}),
          d_day |-> IF x.expiry_date.null THEN Null
                    ELSE Number(Ceil(SetHoursZero(q.data.zone, x.expiry_date.t) - today,
                                     HOURS_PER_DAY))]
           : x \in r.expiringRaw}]

DashboardFinish(q) ==
  /\ q \in pending
  /\ q.op = OpDashboardGet
  /\ AllReadsDone(q)
  /\ last' = Reply(q, OpDashboardGet, 200, 4, {}, DashboardBody(q))
  /\ pending' = pending \ {q}
  /\ UNCHANGED db

\* Stored logs of both months and a stored item, read by either user.
MaxDashLogs == 2

MaxDashItems == 1

InitDashboard ==
  /\ users = [u \in 1..2 |-> Member(u)]
  /\ nextUserId = 2
  /\ user_settings = [u \in 1..2 |-> [alert_timer |-> TRUE]]
  /\ \E n \in 0..MaxDashItems : fridge_items \in [1..n -> ExpiringRows]
  /\ nextItemId = Len(fridge_items)
  /\ \E n \in 0..MaxDashLogs : cooking_logs \in [1..n -> StatLogRows]
  /\ nextLogId = Len(cooking_logs)
  /\ recipes = <<[user_id |-> 1, title |-> <<"t">>, servings |-> 1]>>
  /\ nextRecipeId = 1
  /\ recipe_ingredients =
       {[recipe_id |-> 1, ri_id |-> 1, name |-> <<"i">>, amount_null |-> TRUE, amount |-> 0]}
  /\ recipe_steps =
       {[recipe_id |-> 1, step_id |-> 1, step_order |-> 1, instruction |-> <<"s">>]}
  /\ pending = {}
  /\ last = NoResponse

DashClock == {MonthDays * HOURS_PER_DAY + 12}

NextDashboard ==
  \/ ReadResponse
  \/ \E s \in Sessions, now \in DashClock : Idle /\ DashboardStart(s, now, UTC)
  \/ \E q \in pending, k \in Reads, t \in BOOLEAN : Ready /\ DashboardRead(q, k, t)
  \/ \E q \in pending : Ready /\ DashboardFinish(q)

SpecDashboard == InitDashboard /\ [][NextDashboard]_vars

\* The dashboard requests in flight.
Dashboards == {q \in pending : q.op = OpDashboardGet}

\* C24: GET /api/dashboard issues its four reads together and builds the
\* response only after all four have completed: whatever the order of
\* completion the response is the one computed from the four results (the
\* response of the handler taken as one step); a read that fails gives a 500
\* that carries none of the data; and no read or response writes.
C24_AllThenRespond ==
  [][/\ \A q \in Dashboards :
          /\ (q \notin pending' /\ last'.status = 200) =>
               /\ q.data.done = Reads
               /\ last' = DashboardReply(SessionOf(q.user), q.data.now, q.data.zone)
          /\ (q \notin pending' /\ last' # last /\ last'.status # 200) =>
               /\ last'.status = 500
               /\ last'.body = NoBody
               /\ q.data.done # Reads
          /\ q \in pending' => last' = last
     /\ \A q \in {x \in pending' : x.op = OpDashboardGet} :
          q \notin pending =>
            \/ q.data.done = {} /\ pending = {}
            \/ \E o \in Dashboards : \E k \in Reads \ o.data.done :
                 /\ o \notin pending'
                 /\ q.data.done = o.data.done \cup {k}
                 /\ q.data.results[k] = ReadResult(o, k)
     /\ UNCHANGED db]_vars

\* A response built after the expiring items were read last, with items and
\* logs in it.
C24_Witness ==
  /\ last.op = OpDashboardGet
  /\ last.status = 200
  /\ last.body.expiring_items # {}
  /\ last.body.monthly_cooking_count > 0
  /\ last.body.prev_month_cooking_count > 0
====
